---------------------------- MODULE Spec2Model ----------------------------
(***************************************************************************)
(* A model of the action-plan execution engine of aiwe-client:             *)
(*   - AIWEBot.reorderActionPlan and Utils.reorderActionPlan (linearizers) *)
(*   - AIWEBot.resolveParameters                                           *)
(*   - AIWEBot.executeAction / resolveAuthHeaders                          *)
(*   - AIWEBot.processInstruction / executePlan (retry and escalation)     *)
(*                                                                         *)
(* JavaScript strings that the code parses or compares with parsed text    *)
(* (action ids, output keys, property names, parameter values) are         *)
(* sequences of one-character strings.  Other names (websites, services,   *)
(* header names) are plain strings.                                        *)
(***************************************************************************)
EXTENDS Integers, Sequences, FiniteSets, TLC

(***************************************************************************)
(* Bounds of the model.                                                    *)
(***************************************************************************)
MaxLinLen == 3        \* longest plan given to the linearizers alone
MaxDeps == 1          \* longest dependsOn list in those plans
StackLimit == 8       \* call-stack frames available to Utils' visit()
MaxPlanLen == 2       \* longest plan the planner proposes to processInstruction
MaxResets == 1        \* escalation answers `retry` accepted per action (cap)
MaxInstructions == 2  \* processInstruction calls per behaviour
MaxParams == 2        \* most entries of a parameter object given to resolveParameters alone
MaxResolves == 2      \* getAIWEConfig calls per behaviour of getAIWEConfig alone
MaxRuns == 2          \* processInstruction calls in progress together
MaxSessions == 2      \* sessions created per behaviour of the SessionManager
MaxSessionCalls == 4  \* calls of the SessionManager per behaviour
MaxAuthOptions == 2   \* options of an authentication descriptor

(***************************************************************************)
(* Strings as character sequences.                                         *)
(***************************************************************************)
S_a == <<"a">>
S_b == <<"b">>
S_c == <<"c">>
S_v == <<"v">>
S_fetch == <<"f", "e", "t", "c", "h">>
S_use == <<"u", "s", "e">>
S_poll == <<"p", "o", "l", "l">>
S_k1 == <<"k", "1">>
S_total == <<"t", "o", "t", "a", "l">>

\* the sentinel '$outputs.' of resolveParameters
OutputsPrefix == <<"$", "o", "u", "t", "p", "u", "t", "s", ".">>

\* String.prototype.startsWith
StartsWith(s, p) == Len(s) >= Len(p) /\ SubSeq(s, 1, Len(p)) = p

\* the characters of the class [\.\[\]] in value.split(/[\.\[\]]+/)
PathDelimiters == {".", "[", "]"}

RECURSIVE SplitPath(_, _, _)
\* s.split(/[\.\[\]]+/).filter(Boolean): the maximal delimiter-free runs of s,
\* empty runs discarded.  cur is the run being read, acc the runs read.
SplitPath(s, cur, acc) ==
    IF s = <<>> THEN (IF cur = <<>> THEN acc ELSE Append(acc, cur))
    ELSE IF Head(s) \in PathDelimiters
         THEN SplitPath(Tail(s), <<>>, IF cur = <<>> THEN acc ELSE Append(acc, cur))
         ELSE SplitPath(Tail(s), Append(cur, Head(s)), acc)

(***************************************************************************)
(* JavaScript values, tagged by type.                                      *)
(***************************************************************************)
Undefined == [t |-> "undefined"]
Null == [t |-> "null"]
Num(n) == [t |-> "number", v |-> n]
Bool(b) == [t |-> "boolean", v |-> b]
Str(s) == [t |-> "string", v |-> s]
Arr(s) == [t |-> "array", v |-> s]
\* an object: a function from property names to values
Obj(f) == [t |-> "object", v |-> f]

\* JavaScript falsiness (the test `!x`)
Falsy(x) ==
    \/ x.t \in {"undefined", "null"}
    \/ x.t = "number" /\ x.v = 0
    \/ x.t = "boolean" /\ x.v = FALSE
    \/ x.t = "string" /\ x.v = <<>>

(***************************************************************************)
(* Plan actions.  dependsOn is a sequence of strings (an absent dependsOn  *)
(* and an empty one behave alike everywhere in the code and are both       *)
(* <<>>); outputKey is a string, <<>> when absent (absent and '' are both  *)
(* falsy); parameters is the insertion-ordered list of the entries of the  *)
(* parameter object.                                                       *)
(***************************************************************************)
Action(id, website, parameters, dependsOn, outputKey, alwaysExecute) ==
    [id |-> id, website |-> website, parameters |-> parameters,
     dependsOn |-> dependsOn, outputKey |-> outputKey,
     alwaysExecute |-> alwaysExecute]

\* the elements of a sequence
Range(s) == {s[i] : i \in 1..Len(s)}

\* the sequence s without its i-th element (Array.prototype.splice(i, 1))
RemoveAt(s, i) == SubSeq(s, 1, i - 1) \o SubSeq(s, i + 1, Len(s))

CycleError == "Circular dependency detected in action plan"
StackOverflow == "RangeError: Maximum call stack size exceeded"

(***************************************************************************)
(* AIWEBot.reorderActionPlan: the satisfied-set scan.                      *)
(***************************************************************************)
\* the findIndex predicate: no dependsOn, or every entry is an available output
Eligible(action, availableOutputs) ==
    \A i \in 1..Len(action.dependsOn) : action.dependsOn[i] \in availableOutputs

\* Array.prototype.findIndex over unprocessedActions, 0 when there is none
FindEligible(unprocessedActions, availableOutputs) ==
    LET hits == {i \in 1..Len(unprocessedActions) :
                    Eligible(unprocessedActions[i], availableOutputs)}
    IN IF hits = {} THEN 0 ELSE CHOOSE i \in hits : \A j \in hits : i <= j

RECURSIVE ReorderLoop(_, _, _)
\* the while loop of reorderActionPlan
ReorderLoop(unprocessedActions, availableOutputs, orderedPlan) ==
    IF unprocessedActions = <<>> THEN [ok |-> TRUE, plan |-> orderedPlan]
    ELSE LET actionIndex == FindEligible(unprocessedActions, availableOutputs)
         IN IF actionIndex = 0 THEN [ok |-> FALSE, error |-> CycleError]
            ELSE LET nextAction == unprocessedActions[actionIndex]
                 IN ReorderLoop(RemoveAt(unprocessedActions, actionIndex),
                                IF nextAction.outputKey # <<>>
                                THEN availableOutputs \cup {nextAction.outputKey}
                                ELSE availableOutputs,
                                Append(orderedPlan, nextAction))

reorderActionPlan(actionPlan) == ReorderLoop(actionPlan, {}, <<>>)

(***************************************************************************)
(* Utils.reorderActionPlan: the depth-first visit.  actionMap keeps the    *)
(* last action submitted under each id.  visit() recurses once per         *)
(* dependency edge; the recursion has no on-stack marker, so it ends only  *)
(* when the call stack is exhausted if the edges form a cycle.             *)
(***************************************************************************)
ActionMap(actions) ==
    [id \in {actions[i].id : i \in 1..Len(actions)} |->
        actions[CHOOSE i \in 1..Len(actions) :
                   /\ actions[i].id = id
                   /\ \A j \in 1..Len(actions) : actions[j].id = id => j <= i]]

RECURSIVE Visit(_, _, _, _)
RECURSIVE VisitDeps(_, _, _, _, _)
\* st = [visited, sorted, overflow]; depth = frames of visit() on the stack
Visit(action, actionMap, st, depth) ==
    IF st.overflow THEN st
    ELSE IF depth > StackLimit THEN [st EXCEPT !.overflow = TRUE]
    ELSE IF action.id \in st.visited THEN st
    ELSE LET after == VisitDeps(action.dependsOn, 1, actionMap, st, depth)
         IN IF after.overflow THEN after
            ELSE [after EXCEPT !.visited = @ \cup {action.id},
                               !.sorted = Append(@, action)]

\* action.dependsOn.forEach(...), from the i-th entry on
VisitDeps(deps, i, actionMap, st, depth) ==
    IF i > Len(deps) \/ st.overflow THEN st
    ELSE VisitDeps(deps, i + 1, actionMap,
                   IF deps[i] \in DOMAIN actionMap
                   THEN Visit(actionMap[deps[i]], actionMap, st, depth + 1)
                   ELSE st,
                   depth)

RECURSIVE VisitAll(_, _, _, _)
\* actions.forEach(action => visit(action)), from the i-th action on
VisitAll(actions, i, actionMap, st) ==
    IF i > Len(actions) \/ st.overflow THEN st
    ELSE VisitAll(actions, i + 1, actionMap, Visit(actions[i], actionMap, st, 1))

utilsReorderActionPlan(actions) ==
    LET st == VisitAll(actions, 1, ActionMap(actions),
                       [visited |-> {}, sorted |-> <<>>, overflow |-> FALSE])
    IN IF st.overflow THEN [ok |-> FALSE, error |-> StackOverflow]
       ELSE [ok |-> TRUE, plan |-> st.sorted]

(***************************************************************************)
(* AIWEBot.resolveParameters.  Parameter objects are lists of entries      *)
(* [key, value] in insertion order; outputs is a function from output keys *)
(* to values.                                                              *)
(***************************************************************************)
S_undefined == <<"u", "n", "d", "e", "f", "i", "n", "e", "d">>
S_length == <<"l", "e", "n", "g", "t", "h">>

DigitValue == [d \in {"0", "1", "2", "3", "4", "5", "6", "7", "8", "9"} |->
                 CASE d = "0" -> 0 [] d = "1" -> 1 [] d = "2" -> 2 [] d = "3" -> 3
                   [] d = "4" -> 4 [] d = "5" -> 5 [] d = "6" -> 6 [] d = "7" -> 7
                   [] d = "8" -> 8 [] d = "9" -> 9]

RECURSIVE DigitsToNat(_, _)
DigitsToNat(s, acc) ==
    IF s = <<>> THEN acc ELSE DigitsToNat(Tail(s), 10 * acc + DigitValue[Head(s)])

\* the array index a property name denotes, -1 when it is not a canonical index
ToIndex(seg) ==
    IF /\ seg # <<>>
       /\ \A i \in 1..Len(seg) : seg[i] \in DOMAIN DigitValue
       /\ (Len(seg) > 1 => seg[1] # "0")
    THEN DigitsToNat(seg, 0) ELSE -1

\* the property read x[seg] of a value that is neither null nor undefined
GetProperty(x, seg) ==
    CASE x.t = "object" -> IF seg \in DOMAIN x.v THEN x.v[seg] ELSE Undefined
      [] x.t = "array" ->
            IF ToIndex(seg) >= 0
            THEN (IF ToIndex(seg) < Len(x.v) THEN x.v[ToIndex(seg) + 1] ELSE Undefined)
            ELSE IF seg = S_length THEN Num(Len(x.v)) ELSE Undefined
      [] x.t = "string" ->
            IF ToIndex(seg) >= 0
            THEN (IF ToIndex(seg) < Len(x.v) THEN Str(<<x.v[ToIndex(seg) + 1]>>) ELSE Undefined)
            ELSE IF seg = S_length THEN Num(Len(x.v)) ELSE Undefined
      [] OTHER -> Undefined

RECURSIVE WalkPath(_, _, _)
\* the loop `for (i = 1; i < path.length; i++)`: "TypeError" when a property of
\* null is read, "undefined" when a step yields undefined
WalkPath(outputValue, path, i) ==
    IF i > Len(path) THEN [ok |-> TRUE, value |-> outputValue]
    ELSE IF outputValue.t = "null" THEN [ok |-> FALSE, why |-> "TypeError"]
    ELSE LET next == GetProperty(outputValue, path[i])
         IN IF next = Undefined THEN [ok |-> FALSE, why |-> "undefined"]
            ELSE WalkPath(next, path, i + 1)

\* a resolution that hands on whatever the path yields, undefined included
ResolveEntryLenient(key, value, outputs) ==
    IF value.t = "string" /\ StartsWith(value.v, OutputsPrefix)
    THEN LET path == SplitPath(SubSeq(value.v, Len(OutputsPrefix) + 1, Len(value.v)),
                               <<>>, <<>>)
             outputValue == IF path # <<>> /\ path[1] \in DOMAIN outputs
                            THEN outputs[path[1]] ELSE Undefined
             w == WalkPath(outputValue, path, 2)
         IN IF Falsy(outputValue) THEN [ok |-> TRUE, value |-> outputValue]
            ELSE IF w.ok THEN [ok |-> TRUE, value |-> w.value]
            ELSE IF w.why = "TypeError"
                 THEN [ok |-> FALSE, error |-> [kind |-> "TypeError"]]
                 ELSE [ok |-> TRUE, value |-> Undefined]
    ELSE [ok |-> TRUE, value |-> value]

\* the value of one entry, or the error its resolution throws
ResolveEntry(key, value, outputs) ==
    IF value.t = "string" /\ StartsWith(value.v, OutputsPrefix)
    THEN LET path == SplitPath(SubSeq(value.v, Len(OutputsPrefix) + 1, Len(value.v)),
                               <<>>, <<>>)
             outputValue == IF path # <<>> /\ path[1] \in DOMAIN outputs
                            THEN outputs[path[1]] ELSE Undefined
         IN IF Falsy(outputValue)
            THEN [ok |-> FALSE,
                  error |-> [kind |-> "MissingOutput", param |-> key,
                             output |-> IF path = <<>> THEN S_undefined ELSE path[1]]]
            ELSE LET w == WalkPath(outputValue, path, 2)
                 IN IF w.ok THEN [ok |-> TRUE, value |-> w.value]
                    ELSE IF w.why = "TypeError"
                         THEN [ok |-> FALSE, error |-> [kind |-> "TypeError"]]
                         ELSE [ok |-> FALSE,
                               error |-> [kind |-> "InvalidPath", param |-> key,
                                          value |-> value.v]]
    ELSE [ok |-> TRUE, value |-> value]

S_proto == <<"_", "_", "p", "r", "o", "t", "o", "_", "_">>

\* the assignment obj[key] = value on an object created by the literal {}: an
\* own property is added or overwritten, except under the name '__proto__',
\* which such an object inherits as an accessor: the assignment runs the
\* setter (the prototype changes when value is an object or null) and adds
\* no own property
SetOwn(obj, key, value) ==
    IF key = S_proto THEN obj
    ELSE IF \E j \in 1..Len(obj) : obj[j].key = key
         THEN [j \in 1..Len(obj) |->
                  IF obj[j].key = key THEN [key |-> key, value |-> value] ELSE obj[j]]
         ELSE Append(obj, [key |-> key, value |-> value])

RECURSIVE ResolveFrom(_, _, _, _)
\* the loop over Object.entries(parameters), from the i-th entry on
ResolveFrom(parameters, i, outputs, resolvedParams) ==
    IF i > Len(parameters) THEN [ok |-> TRUE, params |-> resolvedParams]
    ELSE LET r == ResolveEntry(parameters[i].key, parameters[i].value, outputs)
         IN IF r.ok
            THEN ResolveFrom(parameters, i + 1, outputs,
                             SetOwn(resolvedParams, parameters[i].key, r.value))
            ELSE [ok |-> FALSE, error |-> r.error]

resolveParameters(parameters, outputs) == ResolveFrom(parameters, 1, outputs, <<>>)

(***************************************************************************)
(* The services of the model.  configs is what the config-gathering step   *)
(* of processInstruction collects for the websites the planner names and   *)
(* configSources what getAIWEConfig records for them: "svc" and "sec" are  *)
(* served by their official manifest; "sec" declares header                *)
(* authentication and the bot was constructed without credentials for it.  *)
(***************************************************************************)
WorldConfigs ==
    [w \in {"svc", "sec"} |->
        [service |-> w,
         actions |-> {S_fetch, S_use, S_poll},
         authentication |->
            IF w = "sec"
            THEN [type |-> "header", options |-> <<[headers |-> {"x-api-key"}]>>]
            ELSE [type |-> "none", options |-> <<>>]]]

WorldSources == [s \in {"svc", "sec"} |-> "official"]

\* options.serviceCredentials of the constructor: service -> header -> value
serviceCredentials == [s \in {"svc"} |-> [h \in {"x-api-key"} |-> "key-svc"]]

S_d == <<"d">>
S_getBalance == <<"g", "e", "t", "B", "a", "l", "a", "n", "c", "e">>

\* the catalog of the Stripe bridge (its objects are records: functions of
\* plain property names)
StripeCatalog ==
    Obj([service |-> Str(<<"s", "t", "r", "i", "p", "e">>), description |-> Str(S_d),
         actions |-> Arr(<<Obj([name |-> Str(S_getBalance),
                                description |-> Str(S_d)])>>)])

\* the statically registered bridges: config is the catalog (Undefined for a
\* bridge registered with its package name only), actions the names of the
\* actions of the catalog, implementation the names it implements
communityBridges ==
    [s \in {"stripe.com", "github.com"} |->
        IF s = "stripe.com"
        THEN [package |-> "@aiwe/stripe-bridge", config |-> StripeCatalog,
              actions |-> {S_getBalance}, implementation |-> {S_getBalance}]
        ELSE [package |-> "@aiwe/github-bridge", config |-> Undefined,
              actions |-> {}, implementation |-> {}]]

\* what a backend answers to a call of an action: the response bodies it may
\* send, besides failing
RemoteData(actionId) ==
    IF actionId = S_fetch THEN {Obj([p \in {S_total} |-> Num(7)])}
    ELSE IF actionId = S_poll THEN {Num(1), Num(2)}
    ELSE {Num(1)}

RemoteFailure == [ok |-> FALSE, message |-> [kind |-> "Remote"]]

Responses(actionId) ==
    {[ok |-> TRUE, data |-> d] : d \in RemoteData(actionId)} \cup {RemoteFailure}

(***************************************************************************)
(* AIWEBot.resolveAuthHeaders and AIWEBot.executeAction.  credentials is   *)
(* this.serviceCredentials.  An error message is a record; its text        *)
(* contains 'Missing credentials' exactly when it is or wraps the message  *)
(* of resolveAuthHeaders.  A result of executeAction tells whether the     *)
(* backend was reached (called), and if so which backend and with which    *)
(* headers.                                                                *)
(***************************************************************************)
NoHeaders == [h \in {} |-> ""]

\* a name every object literal inherits from Object.prototype, and the string
\* form of the value read under it
ObjectPrototypeNames == {"constructor"}
InheritedValue == "function Object() { [native code] }"

\* the property read obj[key] on a record of strings: the own property, else
\* the inherited one, else undefined ('' stands for undefined as well: both
\* are falsy)
PropertyOf(obj, key) ==
    IF key \in DOMAIN obj THEN obj[key]
    ELSE IF key \in ObjectPrototypeNames THEN InheritedValue ELSE ""

\* this.serviceCredentials[service] || {}
SavedCredentials(credentials, service) ==
    IF service \in DOMAIN credentials THEN credentials[service] ELSE NoHeaders

\* a resolution that forwards every stored credential of the service
resolveAuthHeadersAll(credentials, service, authConfig) ==
    [ok |-> TRUE, headers |-> SavedCredentials(credentials, service)]

resolveAuthHeaders(credentials, service, authConfig) ==
    IF authConfig.type # "header" \/ authConfig.options = <<>>
    THEN [ok |-> TRUE, headers |-> NoHeaders]
    ELSE LET requiredHeaders == authConfig.options[1].headers
             savedCredentials == SavedCredentials(credentials, service)
             missingCredentials ==
                {h \in requiredHeaders : PropertyOf(savedCredentials, h) = ""}
         IN IF missingCredentials # {}
            THEN [ok |-> FALSE,
                  message |-> [kind |-> "MissingCredentials", service |-> service,
                               required |-> missingCredentials]]
            ELSE [ok |-> TRUE,
                  headers |-> [h \in requiredHeaders |->
                                  PropertyOf(savedCredentials, h)]]

IncludesMissingCredentials(message) == message.kind = "MissingCredentials"

\* resp is what the backend (remote service or bridge implementation) does if
\* it is called.  The result is [ok, data] or [ok, message], with called
\* telling whether the backend was reached.
executeAction(credentials, actionId, website, params, config, sources, resp) ==
    LET source == IF config.service \in DOMAIN sources
                  THEN sources[config.service] ELSE "none"
    IN IF source \in {"official", "aiwe.cloud"}
       THEN IF actionId \notin config.actions
            THEN [ok |-> FALSE, called |-> FALSE,
                  message |-> [kind |-> "ActionNotFound", action |-> actionId,
                               service |-> config.service]]
            ELSE LET auth == resolveAuthHeaders(credentials, config.service,
                                                config.authentication)
                 IN IF ~auth.ok
                    THEN (IF IncludesMissingCredentials(auth.message)
                          THEN [ok |-> FALSE, called |-> FALSE, message |-> auth.message]
                          ELSE [ok |-> FALSE, called |-> FALSE,
                                message |-> [kind |-> "FailedToExecute",
                                             action |-> actionId,
                                             service |-> config.service]])
                    ELSE IF resp.ok
                         THEN [ok |-> TRUE, called |-> TRUE, backend |-> source,
                               headers |-> auth.headers, data |-> resp.data]
                         ELSE [ok |-> FALSE, called |-> TRUE, backend |-> source,
                               headers |-> auth.headers,
                               message |-> [kind |-> "FailedToExecute",
                                            action |-> actionId,
                                            service |-> config.service]]
       ELSE IF config.service \notin DOMAIN communityBridges
            THEN [ok |-> FALSE, called |-> FALSE,
                  message |-> [kind |-> "NoImplementation", service |-> config.service]]
            ELSE IF actionId \notin communityBridges[config.service].actions
                 THEN [ok |-> FALSE, called |-> FALSE,
                       message |-> [kind |-> "NotFoundInBridge", action |-> actionId,
                                    service |-> config.service]]
                 ELSE IF actionId \notin communityBridges[config.service].implementation
                      THEN [ok |-> FALSE, called |-> FALSE,
                            message |-> [kind |-> "NotImplementedInBridge",
                                         action |-> actionId,
                                         service |-> config.service]]
                      ELSE IF resp.ok
                           THEN [ok |-> TRUE, called |-> TRUE, backend |-> "bridge",
                                 headers |-> NoHeaders, data |-> resp.data]
                           ELSE [ok |-> FALSE, called |-> TRUE, backend |-> "bridge",
                                 headers |-> NoHeaders, message |-> resp.message]

(***************************************************************************)
(* The plans the planner may propose to processInstruction.                *)
(***************************************************************************)
\* '$outputs.k1.total'
RefK1Total == OutputsPrefix \o S_k1 \o <<".">> \o S_total

FetchActions ==
    {Action(S_fetch, w, <<>>, d, k, FALSE) :
        w \in {"svc", "sec"}, d \in {<<>>, <<S_use>>}, k \in {S_k1, S_use}}

UseActions ==
    {Action(S_use, "svc", <<[key |-> S_v, value |-> Str(RefK1Total)]>>, d, <<>>, FALSE) :
        d \in {<<S_fetch>>, <<S_k1>>, <<S_use>>}}

\* an action the planner marks alwaysExecute
ForcedActions == {Action(S_poll, "svc", <<>>, <<>>, <<>>, TRUE)}

ActionSet == FetchActions \cup UseActions \cup ForcedActions

PlanSet == UNION {[1..n -> ActionSet] : n \in 1..MaxPlanLen}

EscalationDecisions == {"stop", "continue", "retry", "skip"}
EscalationReasons == {"r1", "r2"}

(***************************************************************************)
(* State.                                                                  *)
(***************************************************************************)
VARIABLES
    pc,                \* where processInstruction/executePlan is suspended
    instructions,      \* processInstruction calls made so far
    plan,              \* the plan proposed by the planner for the instruction
    orderedPlan,       \* executePlan: orderedPlan
    idx,               \* executePlan: position of the for loop in orderedPlan
    outputs,           \* executePlan: outputs (Map)
    completedActions,  \* context.completedActions (Map)
    chatHistory,       \* executePlan: chatHistory
    actionResults,     \* executePlan: actionResults
    actionResult,      \* executePlan: actionResult of the action in progress
    resolvedParams,    \* executePlan: resolvedParams of the action in progress
    dataStore,         \* this.dataStore
    configSources,     \* this.configSources (Map)
    configs,           \* processInstruction: configs (Map)
    clock,             \* what Date.now() returns
    decision,          \* executePlan: the oracle's answer being acted on
    executed,          \* actions executeAction was called for, in call order
    attempts,          \* executeAction calls for the action in progress
    delays,            \* setTimeout delays awaited for the action in progress
    oracleCalls,       \* escalations of the action in progress
    resets,            \* retry answers received for the action in progress
    thrown,            \* the error executePlan threw for the last instruction
    response,          \* what processInstruction returned last
    linPlan,           \* linearizers alone: the plan
    linBot,            \* linearizers alone: result of AIWEBot.reorderActionPlan
    linUtils,          \* linearizers alone: result of Utils.reorderActionPlan
    resParams,         \* resolveParameters alone: parameters
    resOutputs,        \* resolveParameters alone: outputs
    resResult,         \* resolveParameters alone: what it returned or threw
    capService,        \* getAIWEConfig alone: serviceName of the call in progress
    capTried,          \* getAIWEConfig alone: the tiers the call has tried, with
                       \* what each answered
    capResult,         \* getAIWEConfig alone: what the last call returned or threw
    capCalls,          \* getAIWEConfig alone: calls made
    runPc,             \* concurrent runs: where each processInstruction call is
                       \* suspended
    runService,        \* concurrent runs: the service each call resolves and uses
    runTier,           \* concurrent runs: the tier that supplied each call's catalog
    runDispatch,       \* concurrent runs: the source each call's executeAction read
    runConv,           \* concurrent runs: the index of the conversation each call
                       \* pushed
    sessions,          \* SessionManager: this.sessions (Map)
    held,              \* SessionManager: the Session objects its callers hold
    sessCalls,         \* SessionManager: calls made
    authCreds,         \* executeAction alone: two values of this.serviceCredentials
    authDescriptor,    \* executeAction alone: config.authentication
    authResult,        \* executeAction alone: what it did under each of the two
    dispResult         \* dispatch alone: the last call of executeAction

runVars == <<orderedPlan, idx, outputs, completedActions, chatHistory,
             actionResults, actionResult, resolvedParams>>
logVars == <<executed, attempts, delays, oracleCalls, resets>>
linVars == <<linPlan, linBot, linUtils>>
resVars == <<resParams, resOutputs, resResult>>
\* the state of the operations that are exercised alone
capVars == <<capService, capTried, capResult, capCalls>>
concVars == <<runPc, runService, runTier, runDispatch, runConv>>
sessVars == <<sessions, held, sessCalls>>
execVars == <<authCreds, authDescriptor, authResult, dispResult>>
auxVars == <<linVars, resVars, capVars, concVars, sessVars, execVars>>
vars == <<pc, instructions, plan, runVars, decision, dataStore, configSources, configs,
          clock, logVars, thrown, response, auxVars>>

EmptyMap == [k \in {} |-> Undefined]
MapSet(m, k, v) == [x \in DOMAIN m \cup {k} |-> IF x = k THEN v ELSE m[x]]

NoError == [kind |-> "none"]
NoResponse == [response |-> [kind |-> "none"]]
NoActionResult == [status |-> "none"]
NoDecision == [decision |-> "none"]
NotRun == [ok |-> FALSE, error |-> "not run"]

\* an escalation after the second consecutive failure
maxRetriesTwo == 1 + 1

maxRetries == 3

\* the processInstruction calls that may be in progress together
Runs == 1..MaxRuns

\* the operations exercised alone have not been given an input
LinIdle == linPlan = <<>> /\ linBot = NotRun /\ linUtils = NotRun
ResIdle == resParams = <<>> /\ resOutputs = EmptyMap /\ resResult = NotRun
\* getAIWEConfig has neither returned nor thrown
NotResolved == [ok |-> FALSE, error |-> NoError]
CapIdle == capService = "" /\ capTried = <<>> /\ capResult = NotResolved /\ capCalls = 0
\* a SessionManager that has not been called
SessIdle == sessions = EmptyMap /\ held = {} /\ sessCalls = 0
\* executeAction has not been exercised alone
NoCredentials == [s \in {} |-> NoHeaders]
NoAuthentication == [type |-> "none", options |-> <<>>]
ExecIdle ==
    /\ authCreds = <<NoCredentials, NoCredentials>>
    /\ authDescriptor = NoAuthentication
    /\ authResult = <<NotRun, NotRun>>
    /\ dispResult = NotRun
\* no processInstruction call of the concurrent runs has been made
ConcIdle ==
    /\ runPc = [r \in Runs |-> "idle"]
    /\ runService = [r \in Runs |-> ""]
    /\ runTier = [r \in Runs |-> "none"]
    /\ runDispatch = [r \in Runs |-> "none"]
    /\ runConv = [r \in Runs |-> 0]

Init ==
    /\ pc = "idle"
    /\ instructions = 0
    /\ plan = <<>>
    /\ orderedPlan = <<>>
    /\ idx = 0
    /\ outputs = EmptyMap
    /\ completedActions = EmptyMap
    /\ chatHistory = <<>>
    /\ actionResults = <<>>
    /\ actionResult = NoActionResult
    /\ resolvedParams = <<>>
    /\ dataStore = [actions |-> EmptyMap, conversations |-> <<>>]
    /\ configSources = EmptyMap
    /\ configs = EmptyMap
    /\ clock = 0
    /\ decision = NoDecision
    /\ executed = <<>>
    /\ attempts = 0
    /\ delays = <<>>
    /\ oracleCalls = 0
    /\ resets = 0
    /\ thrown = NoError
    /\ response = NoResponse
    /\ LinIdle
    /\ ResIdle
    /\ CapIdle
    /\ ConcIdle
    /\ SessIdle
    /\ ExecIdle

(***************************************************************************)
(* processInstruction.                                                     *)
(***************************************************************************)
\* the catch block of processInstruction: the message becomes the response
ErrorResponse(error) == [response |-> [kind |-> "Error", message |-> error]]

\* dataStore.conversations.push({timestamp, instruction, response: ''})
PushConversation(store, timestamp, instruction) ==
    [store EXCEPT !.conversations =
        Append(@, [timestamp |-> timestamp, instruction |-> instruction,
                   response |-> ""])]

\* The planner answers without a plan (no action required, a clarification
\* or more information needed): processInstruction returns its message and
\* executePlan is not called (its locals are at their initial values).
AnswerWithoutPlan ==
    /\ pc = "idle"
    /\ instructions < MaxInstructions
    /\ instructions' = instructions + 1
    /\ clock' = clock + 1
    /\ dataStore' = PushConversation(dataStore, clock', instructions')
    /\ completedActions' = EmptyMap
    /\ response' = [response |-> [kind |-> "answer"]]
    /\ thrown' = NoError
    /\ executed' = <<>>
    /\ attempts' = 0
    /\ delays' = <<>>
    /\ oracleCalls' = 0
    /\ resets' = 0
    /\ orderedPlan' = <<>>
    /\ idx' = 0
    /\ outputs' = EmptyMap
    /\ chatHistory' = <<>>
    /\ actionResults' = <<>>
    /\ actionResult' = NoActionResult
    /\ resolvedParams' = <<>>
    /\ UNCHANGED <<pc, plan, decision, configSources, configs, auxVars>>

\* processInstruction up to the call of executePlan, and executePlan up to
\* its for loop: the planner proposes p (the first instruction's plan is
\* submitted again by the later ones).
ProcessInstruction(p) ==
    /\ pc = "idle"
    /\ instructions < MaxInstructions
    /\ instructions' = instructions + 1
    /\ plan' = p
    /\ clock' = clock + 1
    /\ dataStore' = PushConversation(dataStore, clock', instructions')
    /\ completedActions' = EmptyMap
    /\ configs' = WorldConfigs
    /\ configSources' = [s \in DOMAIN configSources \cup DOMAIN WorldSources |->
                            IF s \in DOMAIN WorldSources THEN WorldSources[s]
                            ELSE configSources[s]]
    /\ executed' = <<>>
    /\ attempts' = 0
    /\ delays' = <<>>
    /\ oracleCalls' = 0
    /\ resets' = 0
    /\ outputs' = EmptyMap
    /\ chatHistory' = <<>>
    /\ actionResults' = <<>>
    /\ actionResult' = NoActionResult
    /\ resolvedParams' = <<>>
    /\ LET r == reorderActionPlan(p)
       IN IF r.ok
          THEN /\ orderedPlan' = r.plan
               /\ idx' = 1
               /\ pc' = "loop"
               /\ thrown' = NoError
               /\ response' = NoResponse
          ELSE /\ orderedPlan' = <<>>
               /\ idx' = 0
               /\ pc' = "idle"
               /\ thrown' = [kind |-> "CycleError", message |-> r.error]
               /\ response' = ErrorResponse(thrown')
    /\ UNCHANGED <<decision, auxVars>>

(***************************************************************************)
(* executePlan: the for loop over orderedPlan.                             *)
(***************************************************************************)
CurrentAction == orderedPlan[idx]

\* an error that leaves processInstruction: the call rejects
ThrowRejects(error) ==
    /\ thrown' = error
    /\ pc' = "idle"
    /\ UNCHANGED response

\* an error leaves executePlan and is caught by processInstruction
Throw(error) ==
    /\ thrown' = error
    /\ response' = ErrorResponse(error)
    /\ pc' = "idle"

\* index of the first dependency absent from outputs, 0 when there is none
MissingDependency(action, outs) ==
    LET missing == {i \in 1..Len(action.dependsOn) :
                       action.dependsOn[i] \notin DOMAIN outs}
    IN IF missing = {} THEN 0 ELSE CHOOSE i \in missing : \A j \in missing : i <= j

\* the skip test without the alwaysExecute flag
SkipsCompletedUnlessNever(action, completed) == action.id \in DOMAIN completed

\* the skip test: completedActions?.get(action.id) && !action.alwaysExecute
SkipsCompleted(action, completed) ==
    action.id \in DOMAIN completed /\ ~action.alwaysExecute

\* the action was completed before and is not forced: its recorded result is
\* published under its output key and the loop continues
SkipCompleted ==
    /\ pc = "loop"
    /\ idx <= Len(orderedPlan)
    /\ SkipsCompleted(CurrentAction, completedActions)
    /\ chatHistory' = Append(chatHistory,
                             [role |-> "assistant", kind |-> "skipping",
                              action |-> CurrentAction.id,
                              timestamp |-> completedActions[CurrentAction.id].timestamp])
    /\ outputs' = IF CurrentAction.outputKey # <<>>
                  THEN MapSet(outputs, CurrentAction.outputKey,
                              completedActions[CurrentAction.id].result)
                  ELSE outputs
    /\ idx' = idx + 1
    /\ UNCHANGED <<pc, instructions, plan, orderedPlan, completedActions,
                   actionResults, actionResult, resolvedParams, decision,
                   dataStore, configSources, configs, clock, logVars, thrown,
                   response, auxVars>>

\* the error the checks before the retry loop throw for the action, NoError
\* when they pass
PlanDefect(action, outs, cfgs) ==
    LET dep == MissingDependency(action, outs)
        resolved == resolveParameters(action.parameters, outs)
    IN IF dep # 0
       THEN [kind |-> "MissingDependency", action |-> action.id,
             dependency |-> action.dependsOn[dep]]
       ELSE IF ~resolved.ok THEN resolved.error
       ELSE IF action.website \notin DOMAIN cfgs
            THEN [kind |-> "NoConfiguration", website |-> action.website]
            ELSE NoError

\* a defect handled like an abandoned action: a failure is recorded and the
\* for loop moves on
AbortDefectRecorded ==
    /\ pc = "loop"
    /\ idx <= Len(orderedPlan)
    /\ ~SkipsCompleted(CurrentAction, completedActions)
    /\ PlanDefect(CurrentAction, outputs, configs) # NoError
    /\ thrown' = PlanDefect(CurrentAction, outputs, configs)
    /\ actionResults' = Append(actionResults,
                               [id |-> CurrentAction.id, status |-> "failure",
                                error |-> thrown'])
    /\ idx' = idx + 1
    /\ UNCHANGED <<pc, instructions, plan, orderedPlan, outputs, completedActions,
                   chatHistory, actionResult, resolvedParams, decision, dataStore,
                   configSources, configs, clock, logVars, response, auxVars>>

\* a dependency is missing, a parameter cannot be resolved or the website has
\* no configuration: executePlan throws
AbortDefect ==
    /\ pc = "loop"
    /\ idx <= Len(orderedPlan)
    /\ ~SkipsCompleted(CurrentAction, completedActions)
    /\ PlanDefect(CurrentAction, outputs, configs) # NoError
    /\ Throw(PlanDefect(CurrentAction, outputs, configs))
    /\ UNCHANGED <<instructions, plan, runVars, decision, dataStore, configSources,
                   configs, clock, logVars, auxVars>>

\* the checks pass: the retry loop of the action starts
BeginAction ==
    /\ pc = "loop"
    /\ idx <= Len(orderedPlan)
    /\ ~SkipsCompleted(CurrentAction, completedActions)
    /\ PlanDefect(CurrentAction, outputs, configs) = NoError
    /\ resolvedParams' = resolveParameters(CurrentAction.parameters, outputs).params
    /\ actionResult' = [status |-> "error", action |-> CurrentAction.id,
                        website |-> CurrentAction.website, retryCount |-> 0,
                        error |-> NoError, result |-> Undefined]
    /\ attempts' = 0
    /\ delays' = <<>>
    /\ oracleCalls' = 0
    /\ resets' = 0
    /\ pc' = "attempt"
    /\ UNCHANGED <<instructions, plan, orderedPlan, idx, outputs, completedActions,
                   chatHistory, actionResults, decision, dataStore, configSources,
                   configs, clock, executed, thrown, response, auxVars>>

\* a success whose record does not reach the data store
RecordSuccessLedgerOnly(result) ==
    /\ outputs' = IF CurrentAction.outputKey # <<>>
                  THEN MapSet(outputs, CurrentAction.outputKey, result)
                  ELSE outputs
    /\ completedActions' = MapSet(completedActions, CurrentAction.id,
                                  [website |-> CurrentAction.website,
                                   result |-> result, timestamp |-> clock])
    /\ actionResults' = Append(actionResults,
                               [id |-> CurrentAction.id, status |-> "success",
                                result |-> result])
    /\ UNCHANGED dataStore

\* the code after the retry loop for a successful actionResult
RecordSuccess(result) ==
    /\ outputs' = IF CurrentAction.outputKey # <<>>
                  THEN MapSet(outputs, CurrentAction.outputKey, result)
                  ELSE outputs
    /\ completedActions' = MapSet(completedActions, CurrentAction.id,
                                  [website |-> CurrentAction.website,
                                   result |-> result, timestamp |-> clock])
    /\ actionResults' = Append(actionResults,
                               [id |-> CurrentAction.id, status |-> "success",
                                result |-> result])
    /\ dataStore' = [dataStore EXCEPT !.actions =
                        MapSet(@, CurrentAction.id,
                               [website |-> CurrentAction.website,
                                result |-> result, timestamp |-> clock,
                                parameters |-> resolvedParams])]

\* a failure recording that publishes the error under the output key
RecordFailureWrites(error) ==
    /\ actionResults' = Append(actionResults,
                               [id |-> CurrentAction.id, status |-> "failure",
                                error |-> error])
    /\ outputs' = IF CurrentAction.outputKey # <<>>
                  THEN MapSet(outputs, CurrentAction.outputKey, Undefined)
                  ELSE outputs
    /\ UNCHANGED <<completedActions, dataStore>>

\* a failure that leaves no record
RecordFailureSilent(error) ==
    UNCHANGED <<actionResults, outputs, completedActions, dataStore>>

\* the code after the retry loop for a failed actionResult
RecordFailure(error) ==
    /\ actionResults' = Append(actionResults,
                               [id |-> CurrentAction.id, status |-> "failure",
                                error |-> error])
    /\ UNCHANGED <<outputs, completedActions, dataStore>>

\* a delay that does not grow with the attempt number
RetryDelayFlat(retryCount) == 1000

\* the delay awaited after the retryCount-th failure, in ms
RetryDelay(retryCount) == 1000 * retryCount

\* one pass of the retry loop: executeAction is called and awaited.  On
\* success the result is recorded and the for loop moves on; on failure the
\* counter is raised, and the oracle is asked once it reaches maxRetries,
\* otherwise a delay of 1000 * retryCount ms is awaited.
Attempt ==
    /\ pc = "attempt"
    /\ \E resp \in Responses(CurrentAction.id) :
       LET r == executeAction(serviceCredentials, CurrentAction.id,
                              CurrentAction.website, resolvedParams,
                              configs[CurrentAction.website], configSources, resp)
           retryCount == actionResult.retryCount + 1
       IN /\ attempts' = attempts + 1
          /\ executed' = IF attempts = 0
                          THEN Append(executed, [action |-> CurrentAction.id,
                                                 params |-> resolvedParams])
                          ELSE executed
          /\ IF r.ok
             THEN /\ actionResult' = [actionResult EXCEPT !.status = "success",
                                                          !.result = r.data]
                  /\ RecordSuccess(r.data)
                  /\ idx' = idx + 1
                  /\ pc' = "loop"
                  /\ UNCHANGED <<chatHistory, delays>>
             ELSE /\ actionResult' = [actionResult EXCEPT !.retryCount = retryCount,
                                                          !.error = r.message]
                  /\ IF retryCount >= maxRetries
                     THEN /\ chatHistory' = Append(chatHistory,
                                                   [role |-> "user", kind |-> "failed",
                                                    action |-> CurrentAction.id,
                                                    error |-> r.message])
                          /\ pc' = "escalate"
                          /\ UNCHANGED delays
                     ELSE /\ delays' = Append(delays, RetryDelay(retryCount))
                          /\ pc' = "delay"
                          /\ UNCHANGED chatHistory
                  /\ UNCHANGED <<idx, outputs, completedActions, actionResults,
                                 dataStore>>
    /\ UNCHANGED <<instructions, plan, orderedPlan, resolvedParams, decision,
                   configSources, configs, clock, oracleCalls, resets, thrown,
                   response, auxVars>>

\* a delay after which the for loop moves on to the next action
DelayElapsedMovesOn ==
    /\ pc = "delay"
    /\ idx' = idx + 1
    /\ pc' = "loop"
    /\ UNCHANGED <<instructions, plan, orderedPlan, outputs, completedActions,
                   chatHistory, actionResults, actionResult, resolvedParams,
                   decision, dataStore, configSources, configs, clock, logVars,
                   thrown, response, auxVars>>

\* the delay is over: retryCount < maxRetries holds (the delay is awaited only
\* then) and the while loop repeats
DelayElapsed ==
    /\ pc = "delay"
    /\ pc' = "attempt"
    /\ UNCHANGED <<instructions, plan, runVars, decision, dataStore, configSources,
                   configs, clock, logVars, thrown, response, auxVars>>

\* the oracle answers the escalation: decision = JSON.parse(...)
OracleAnswers(d, reason) ==
    /\ pc = "escalate"
    /\ d = "retry" => resets < MaxResets
    /\ decision' = [decision |-> d, reason |-> reason]
    /\ oracleCalls' = oracleCalls + 1
    /\ pc' = "decide"
    /\ UNCHANGED <<instructions, plan, runVars, dataStore, configSources, configs,
                   clock, executed, attempts, delays, resets, thrown, response,
                   auxVars>>

\* `stop` handled like `continue`
DecisionOutcomeStopIgnored(d) == IF d = "retry" THEN "retry" ELSE "break"

\* `continue` handled like `stop`
DecisionOutcomeContinueThrows(d) ==
    IF d \in {"stop", "continue"} THEN "throw"
    ELSE IF d = "retry" THEN "retry" ELSE "break"

\* `retry` handled like `continue`
DecisionOutcomeRetryIgnored(d) == IF d = "stop" THEN "throw" ELSE "break"

\* a handling that knows `continue` and `skip` and takes any other answer
\* for `stop`
DecisionOutcomeUnknownStops(d) ==
    IF d = "retry" THEN "retry"
    ELSE IF d \in {"continue", "skip"} THEN "break" ELSE "throw"

\* what the code does with the decision field of the answer
DecisionOutcome(d) ==
    IF d = "stop" THEN "throw" ELSE IF d = "retry" THEN "retry" ELSE "break"

\* the answer is acted on: `stop` throws the fatal error, `retry` resets the
\* counter and the retry loop repeats, anything else leaves the retry loop
\* with the failure, which is recorded
Decide ==
    /\ pc = "decide"
    /\ decision' = NoDecision
    /\ IF DecisionOutcome(decision.decision) = "throw"
       THEN /\ Throw([kind |-> "Fatal", action |-> CurrentAction.id,
                      error |-> actionResult.error, reason |-> decision.reason])
            /\ UNCHANGED <<runVars, dataStore, resets>>
       ELSE IF DecisionOutcome(decision.decision) = "retry"
       THEN /\ actionResult' = [actionResult EXCEPT !.retryCount = 0]
            /\ resets' = resets + 1
            /\ pc' = "attempt"
            /\ UNCHANGED <<orderedPlan, idx, outputs, completedActions, chatHistory,
                           actionResults, resolvedParams, dataStore, thrown,
                           response>>
       ELSE /\ RecordFailure(actionResult.error)
            /\ idx' = idx + 1
            /\ pc' = "loop"
            /\ UNCHANGED <<orderedPlan, chatHistory, actionResult, resolvedParams,
                           resets, thrown, response>>
    /\ UNCHANGED <<instructions, plan, configSources, configs, clock, executed,
                   attempts, delays, oracleCalls, auxVars>>

\* every action was processed: the oracle is asked for the final summary
EndOfPlan ==
    /\ pc = "loop"
    /\ idx > Len(orderedPlan)
    /\ pc' = "summarize"
    /\ UNCHANGED <<instructions, plan, runVars, decision, dataStore, configSources,
                   configs, clock, logVars, thrown, response, auxVars>>

\* a summary request that never returns
SummarizeNeverReturns ==
    /\ pc = "summarize"
    /\ UNCHANGED vars

\* the summary is stored as the response of the last conversation and
\* returned; processInstruction returns it
Summarize ==
    /\ pc = "summarize"
    /\ dataStore' = [dataStore EXCEPT
                        !.conversations[Len(dataStore.conversations)].response =
                            "summary"]
    /\ response' = [response |-> [kind |-> "summary"],
                    executionResults |-> <<[kind |-> "summary"]>>]
    /\ pc' = "idle"
    /\ UNCHANGED <<instructions, plan, runVars, decision, configSources, configs,
                   clock, logVars, thrown, auxVars>>

Next ==
    \/ AnswerWithoutPlan
    \/ \E p \in (IF plan = <<>> THEN PlanSet ELSE {plan}) : ProcessInstruction(p)
    \/ SkipCompleted
    \/ AbortDefect
    \/ BeginAction
    \/ Attempt
    \/ DelayElapsed
    \/ \E d \in EscalationDecisions, r \in EscalationReasons : OracleAnswers(d, r)
    \/ Decide
    \/ EndOfPlan
    \/ Summarize

Spec == Init /\ [][Next]_vars

(***************************************************************************)
(* processInstruction on plans with defects: the planner proposes plans of *)
(* the four actions below, one of which names a website ("lost") that was  *)
(* not among the websites whose catalogs were gathered.                    *)
(***************************************************************************)
DefectActions ==
    {Action(S_fetch, "svc", <<>>, <<>>, S_k1, FALSE),
     Action(S_use, "svc", <<[key |-> S_v, value |-> Str(RefK1Total)]>>, <<S_k1>>,
            <<>>, FALSE),
     Action(S_use, "svc", <<[key |-> S_v, value |-> Str(RefK1Total)]>>, <<>>,
            <<>>, FALSE),
     Action(S_poll, "lost", <<>>, <<>>, <<>>, FALSE)}

DefectPlanSet == UNION {[1..n -> DefectActions] : n \in 1..MaxPlanLen}

NextDefect ==
    \/ AnswerWithoutPlan
    \/ \E p \in (IF plan = <<>> THEN DefectPlanSet ELSE {plan}) : ProcessInstruction(p)
    \/ SkipCompleted
    \/ AbortDefect
    \/ BeginAction
    \/ Attempt
    \/ DelayElapsed
    \/ \E d \in EscalationDecisions, r \in EscalationReasons : OracleAnswers(d, r)
    \/ Decide
    \/ EndOfPlan
    \/ Summarize

SpecDefect == Init /\ [][NextDefect]_vars

(***************************************************************************)
(* processInstruction on three plans in which a later action depends on    *)
(* the output key k1 of fetch: fetch alone publishes k1 and use depends on *)
(* it; poll runs first and a second action with the id poll depends on k1; *)
(* poll publishes k1 before fetch does and use depends on k1.              *)
(***************************************************************************)
AbandonPlanSet ==
    {<<Action(S_fetch, "svc", <<>>, <<>>, S_k1, FALSE),
       Action(S_use, "svc", <<>>, <<S_k1>>, <<>>, FALSE)>>,
     <<Action(S_poll, "svc", <<>>, <<>>, <<>>, FALSE),
       Action(S_fetch, "svc", <<>>, <<>>, S_k1, FALSE),
       Action(S_poll, "svc", <<>>, <<S_k1>>, <<>>, FALSE)>>,
     <<Action(S_poll, "svc", <<>>, <<>>, S_k1, FALSE),
       Action(S_fetch, "svc", <<>>, <<>>, S_k1, FALSE),
       Action(S_use, "svc", <<>>, <<S_k1>>, <<>>, FALSE)>>}

NextAbandon ==
    \/ AnswerWithoutPlan
    \/ \E p \in (IF plan = <<>> THEN AbandonPlanSet ELSE {plan}) : ProcessInstruction(p)
    \/ SkipCompleted
    \/ AbortDefect
    \/ BeginAction
    \/ Attempt
    \/ DelayElapsed
    \/ \E d \in EscalationDecisions, r \in EscalationReasons : OracleAnswers(d, r)
    \/ Decide
    \/ EndOfPlan
    \/ Summarize

SpecAbandon == Init /\ [][NextAbandon]_vars

(***************************************************************************)
(* The same plans when the oracle is free in what it puts into the         *)
(* decision field.  The answer is the JSON object that the request asks    *)
(* for (response_format json_object), read by JSON.parse(content || "{}"): *)
(* beside the four decisions above its decision field may hold a value the *)
(* prompt does not name ("abort"), or be missing, as in the {} that stands *)
(* for an empty content; decision.decision is then undefined.              *)
(***************************************************************************)
AnswerDecisions == EscalationDecisions \cup {"abort", "undefined"}

NextEscalate ==
    \/ AnswerWithoutPlan
    \/ \E p \in (IF plan = <<>> THEN AbandonPlanSet ELSE {plan}) : ProcessInstruction(p)
    \/ SkipCompleted
    \/ AbortDefect
    \/ BeginAction
    \/ Attempt
    \/ DelayElapsed
    \/ \E d \in AnswerDecisions, r \in EscalationReasons : OracleAnswers(d, r)
    \/ Decide
    \/ EndOfPlan
    \/ Summarize

SpecEscalate == Init /\ [][NextEscalate]_vars

(***************************************************************************)
(* The same plans when every awaited call returns: each executeAction call *)
(* and each oracle request is answered and each timer fires, so a step of  *)
(* the run in progress is eventually taken.  The oracle answers `retry` at *)
(* most MaxResets times per action.                                        *)
(***************************************************************************)
RunStep ==
    \/ SkipCompleted
    \/ AbortDefect
    \/ BeginAction
    \/ Attempt
    \/ DelayElapsed
    \/ \E d \in EscalationDecisions, r \in EscalationReasons : OracleAnswers(d, r)
    \/ Decide
    \/ EndOfPlan
    \/ Summarize

SpecTerm == Init /\ [][NextDefect]_vars /\ WF_vars(RunStep)

(***************************************************************************)
(* processInstruction on plans whose actions share an output key: fetch    *)
(* and poll both publish under k1 (poll forced to repeat or not), and use  *)
(* reads k1.                                                               *)
(***************************************************************************)
SharedKeyActions ==
    {Action(S_fetch, "svc", <<>>, <<>>, S_k1, FALSE),
     Action(S_poll, "svc", <<>>, <<>>, S_k1, FALSE),
     Action(S_poll, "svc", <<>>, <<>>, S_k1, TRUE),
     Action(S_use, "svc", <<[key |-> S_v, value |-> Str(RefK1Total)]>>, <<S_k1>>,
            <<>>, FALSE)}

SharedKeyPlanSet == UNION {[1..n -> SharedKeyActions] : n \in 1..MaxPlanLen}

NextSharedKey ==
    \/ AnswerWithoutPlan
    \/ \E p \in (IF plan = <<>> THEN SharedKeyPlanSet ELSE {plan}) : ProcessInstruction(p)
    \/ SkipCompleted
    \/ AbortDefect
    \/ BeginAction
    \/ Attempt
    \/ DelayElapsed
    \/ \E d \in EscalationDecisions, r \in EscalationReasons : OracleAnswers(d, r)
    \/ Decide
    \/ EndOfPlan
    \/ Summarize

SpecSharedKey == Init /\ [][NextSharedKey]_vars

(***************************************************************************)
(* The linearizers alone: each is applied to a plan drawn from all plans   *)
(* of at most MaxLinLen actions over three action ids, where an action may *)
(* publish its output under any of the ids or not at all and may depend on *)
(* any of the ids (which need not be the id of an action of the plan).     *)
(***************************************************************************)
LinIds == {S_a, S_b, S_c}
LinDeps == UNION {[1..n -> LinIds] : n \in 0..MaxDeps}
LinActions ==
    {Action(id, "svc", <<>>, d, k, FALSE) :
        id \in LinIds, d \in LinDeps, k \in {<<>>} \cup LinIds}
LinPlanSet == UNION {[1..n -> LinActions] : n \in 1..MaxLinLen}

InitLin ==
    /\ pc = "lin"
    /\ instructions = 0
    /\ plan = <<>>
    /\ orderedPlan = <<>>
    /\ idx = 0
    /\ outputs = EmptyMap
    /\ completedActions = EmptyMap
    /\ chatHistory = <<>>
    /\ actionResults = <<>>
    /\ actionResult = NoActionResult
    /\ resolvedParams = <<>>
    /\ decision = NoDecision
    /\ dataStore = [actions |-> EmptyMap, conversations |-> <<>>]
    /\ configSources = EmptyMap
    /\ configs = EmptyMap
    /\ clock = 0
    /\ executed = <<>>
    /\ attempts = 0
    /\ delays = <<>>
    /\ oracleCalls = 0
    /\ resets = 0
    /\ thrown = NoError
    /\ response = NoResponse
    /\ linPlan \in LinPlanSet
    /\ linBot = NotRun
    /\ linUtils = NotRun
    /\ ResIdle
    /\ CapIdle
    /\ ConcIdle
    /\ SessIdle
    /\ ExecIdle

mainVars == <<instructions, plan, runVars, decision, dataStore, configSources,
              configs, clock, logVars, thrown, response>>

UtilsReorder ==
    /\ pc = "lin"
    /\ linUtils' = utilsReorderActionPlan(linPlan)
    /\ pc' = "lin-bot"
    /\ UNCHANGED <<mainVars, linPlan, linBot, resVars, capVars, concVars, sessVars, execVars>>

BotReorder ==
    /\ pc = "lin-bot"
    /\ linBot' = reorderActionPlan(linPlan)
    /\ pc' = "lin-done"
    /\ UNCHANGED <<mainVars, linPlan, linUtils, resVars, capVars, concVars, sessVars, execVars>>

NextLin == UtilsReorder \/ BotReorder

SpecLin == InitLin /\ [][NextLin]_vars

(***************************************************************************)
(* The dependency graph of a plan: action i depends on action j when       *)
(* dependsOn of i names the id of j.                                       *)
(***************************************************************************)
UniqueIds(p) == \A i, j \in 1..Len(p) : p[i].id = p[j].id => i = j

DependsOnAction(p, i, j) == p[j].id \in Range(p[i].dependsOn)

RECURSIVE DependsWithin(_, _, _, _)
\* a chain of at most n dependency edges leads from action i to action j
DependsWithin(p, i, j, n) ==
    /\ n > 0
    /\ \/ DependsOnAction(p, i, j)
       \/ \E k \in 1..Len(p) :
             DependsOnAction(p, i, k) /\ DependsWithin(p, k, j, n - 1)

\* every dependsOn entry names the id of an action of the plan
DepsInPlan(p) ==
    \A i \in 1..Len(p) : Range(p[i].dependsOn) \subseteq {p[j].id : j \in 1..Len(p)}

CyclicIds(p) == \E i \in 1..Len(p) : DependsWithin(p, i, i, Len(p))

\* order holds exactly the actions of p, each after the actions it depends on
ValidOrder(order, p) ==
    /\ Len(order) = Len(p)
    /\ \A a \in Range(p) :
          Cardinality({i \in 1..Len(p) : p[i] = a})
             = Cardinality({i \in 1..Len(order) : order[i] = a})
    /\ \A i, j \in 1..Len(order) :
          DependsOnAction(order, i, j) /\ i # j => j < i

(***************************************************************************)
(* C1.  For every plan with unique ids whose dependsOn entries name ids of  *)
(* actions of the plan and whose dependency graph is acyclic,              *)
(* AIWEBot.reorderActionPlan succeeds and returns an order in which every  *)
(* action comes after every action of the plan it depends on.              *)
(***************************************************************************)
C1_BotOrdersAcyclicPlans ==
    pc = "lin-done" /\ UniqueIds(linPlan) /\ DepsInPlan(linPlan) /\ ~CyclicIds(linPlan)
        => linBot.ok /\ ValidOrder(linBot.plan, linPlan)

(***************************************************************************)
(* C4.  Each linearizer ends on every plan, and on a plan with unique ids  *)
(* whose dependency graph has a cycle (an action depending on itself       *)
(* included) it ends by reporting the cycle error: it neither returns an   *)
(* order nor exhausts the call stack.                                      *)
(***************************************************************************)
C4_CycleReported ==
    UniqueIds(linPlan) /\ CyclicIds(linPlan)
        => /\ pc \in {"lin-bot", "lin-done"}
              => ~linUtils.ok /\ linUtils.error = CycleError
           /\ pc = "lin-done" => ~linBot.ok /\ linBot.error = CycleError

(***************************************************************************)
(* Claims about processInstruction / executePlan.                          *)
(***************************************************************************)
\* the plan [fetch -> k1, use(v = $outputs.k1.total) depending on fetch]
E2EPlan ==
    <<Action(S_fetch, "svc", <<>>, <<>>, S_k1, FALSE),
      Action(S_use, "svc", <<[key |-> S_v, value |-> Str(RefK1Total)]>>,
             <<S_fetch>>, <<>>, FALSE)>>

\* the last instruction went through executePlan, which returned or threw
RunEnded == pc = "idle" /\ plan # <<>> /\ response.response.kind \in {"Error", "summary"}

(***************************************************************************)
(* C2.  When the run of the plan [fetch, use], where use depends on fetch  *)
(* and has v = '$outputs.k1.total', ends without a failed action, fetch    *)
(* was executed first and use second, with the parameter v = 7 taken from  *)
(* the result {total: 7} of fetch.                                         *)
(***************************************************************************)
C2_EndToEnd ==
    /\ plan = E2EPlan
    /\ RunEnded
    /\ thrown.kind # "Fatal"
    /\ \A i \in 1..Len(actionResults) : actionResults[i].status = "success"
    => /\ Len(executed) = 2
       /\ executed[1].action = S_fetch
       /\ executed[2] = [action |-> S_use,
                         params |-> <<[key |-> S_v, value |-> Num(7)]>>]

(***************************************************************************)
(* C3.  For a plan with unique ids whose dependency graph has a cycle,      *)
(* executeAction is never called and nothing is written to the outputs,    *)
(* to the completed actions or to the data store, and the run ends with    *)
(* the cycle error.                                                        *)
(***************************************************************************)
C3_CyclicPlanNotExecuted ==
    plan # <<>> /\ UniqueIds(plan) /\ CyclicIds(plan)
    => /\ RunEnded => thrown.kind = "CycleError"
       /\ executed = <<>> /\ attempts = 0
       /\ outputs = EmptyMap /\ completedActions = EmptyMap
       /\ dataStore.actions = EmptyMap

(***************************************************************************)
(* C5.  An action that succeeds after k < 3 failures, without escalation,  *)
(* has a success result with retry count k; executeAction was called k + 1 *)
(* times for it and exactly k delays were awaited, the i-th of i x 1000    *)
(* ms.  The action is recorded as a success and left (no further call).    *)
(***************************************************************************)
C5_RetrySuccess ==
    actionResult.status = "success" /\ resets = 0
    => LET k == actionResult.retryCount
       IN /\ k < maxRetries
          /\ attempts = k + 1
          /\ delays = [i \in 1..k |-> 1000 * i]
          /\ pc \in {"loop", "summarize", "idle"}
          /\ actionResults[Len(actionResults)] =
                [id |-> actionResult.action, status |-> "success",
                 result |-> actionResult.result]

\* fail, fail, succeed: retry count 2 and the delays 1s, 2s
C5_Witness ==
    /\ actionResult.status = "success" /\ resets = 0
    /\ actionResult.retryCount = 2
    /\ attempts = 3
    /\ delays = <<1000, 2000>>

(***************************************************************************)
(* C6.  When the oracle answers `stop` after the third consecutive         *)
(* failure, executePlan throws the fatal error carrying the action, its    *)
(* last error and the oracle's reason; nothing more is executed or         *)
(* recorded, and while that error stands the last action executeAction was *)
(* called for is the one that was stopped.                                 *)
(***************************************************************************)
C6_StopAborts ==
    /\ [][pc = "decide" /\ decision.decision = "stop"
          => /\ actionResult.retryCount = maxRetries
             /\ pc' = "idle"
             /\ thrown' = [kind |-> "Fatal", action |-> orderedPlan[idx].id,
                           error |-> actionResult.error,
                           reason |-> decision.reason]
             /\ response' = ErrorResponse(thrown')
             /\ UNCHANGED <<executed, attempts, idx, outputs, completedActions,
                            actionResults, dataStore>>]_vars
    /\ [](thrown.kind = "Fatal"
          => /\ pc = "idle"
             /\ idx <= Len(orderedPlan)
             /\ Len(executed) > 0
             /\ executed[Len(executed)].action = orderedPlan[idx].id
             /\ Len(actionResults) < idx)

\* stopped at the first of two actions, with the reason r2
C6_Witness ==
    /\ thrown.kind = "Fatal" /\ thrown.reason = "r2"
    /\ idx = 1 /\ Len(orderedPlan) = 2
    /\ attempts >= maxRetries

(***************************************************************************)
(* C7.  When the oracle answers `continue` after the third consecutive     *)
(* failure, the action is recorded as a failure with its last error,       *)
(* nothing is written to the outputs, to the completed actions or to the   *)
(* data store, and the loop moves on to the next action.                   *)
(***************************************************************************)
C7_ContinueRecordsFailure ==
    [][pc = "decide" /\ decision.decision = "continue"
       => /\ actionResult.retryCount = maxRetries
          /\ actionResults' = Append(actionResults,
                                     [id |-> orderedPlan[idx].id,
                                      status |-> "failure",
                                      error |-> actionResult.error])
          /\ UNCHANGED <<outputs, completedActions, dataStore, thrown>>
          /\ idx' = idx + 1
          /\ pc' = "loop"]_vars

\* the second action is being executed after the first was abandoned
C7_Witness ==
    /\ pc = "attempt" /\ idx = 2 /\ attempts = 1
    /\ Len(actionResults) = 1 /\ actionResults[1].status = "failure"
    /\ outputs = EmptyMap /\ completedActions = EmptyMap

C9_CredentialErrorNotRetried ==
    actionResult.status = "error" /\ actionResult.error.kind = "MissingCredentials"
    => /\ attempts = 1
       /\ oracleCalls = 0
       /\ pc = "idle"
       /\ thrown = actionResult.error

(***************************************************************************)
(* C10.  An action recorded as completed by an earlier instruction, and    *)
(* not marked alwaysExecute, is not executed when the plan is submitted    *)
(* again: executeAction is not called for it, and its record (result and   *)
(* timestamp) stays as it was.                                             *)
(***************************************************************************)
CompletedEarlier(id) == id \in DOMAIN dataStore.actions /\ id \notin DOMAIN completedActions

C10_SkipIfCompleted ==
    /\ [](pc \in {"attempt", "delay", "escalate", "decide"}
          /\ ~orderedPlan[idx].alwaysExecute
          => ~CompletedEarlier(orderedPlan[idx].id))
    /\ [][\A id \in DOMAIN dataStore.actions :
             (\A i \in 1..Len(plan) : plan[i].id = id => ~plan[i].alwaysExecute)
             => dataStore'.actions[id] = dataStore.actions[id]]_vars

(***************************************************************************)
(* C11.  An action marked alwaysExecute whose completion is already        *)
(* recorded (in the completed actions of the run or in the data store) is  *)
(* not skipped: nothing is published for it from the record and, the       *)
(* checks passing, its retry loop starts.  When an attempt of it succeeds  *)
(* the record of its id holds the new result and the time of the new       *)
(* completion.                                                             *)
(***************************************************************************)
PriorCompletion(id) == id \in DOMAIN completedActions \/ id \in DOMAIN dataStore.actions

C11_ForcedReexecution ==
    /\ [][/\ pc = "loop" /\ idx <= Len(orderedPlan)
          /\ orderedPlan[idx].alwaysExecute
          /\ PriorCompletion(orderedPlan[idx].id)
          => /\ UNCHANGED <<idx, chatHistory, outputs>>
             /\ PlanDefect(orderedPlan[idx], outputs, configs) = NoError
                => pc' = "attempt" /\ attempts' = 0]_vars
    /\ [][/\ pc = "attempt"
          /\ orderedPlan[idx].alwaysExecute
          /\ PriorCompletion(orderedPlan[idx].id)
          /\ actionResult'.status = "success"
          => /\ completedActions'[orderedPlan[idx].id] =
                   [website |-> orderedPlan[idx].website,
                    result |-> actionResult'.result, timestamp |-> clock]
             /\ dataStore'.actions[orderedPlan[idx].id].result = actionResult'.result
             /\ dataStore'.actions[orderedPlan[idx].id].timestamp = clock]_vars

\* poll was executed twice in one run and the second result replaced the
\* first in the completed actions
C11_Witness ==
    /\ Len(orderedPlan) = 2 /\ idx = 3
    /\ orderedPlan[1].id = S_poll /\ orderedPlan[2].id = S_poll
    /\ orderedPlan[2].alwaysExecute
    /\ Len(executed) = 2
    /\ actionResults[1].result = Num(1)
    /\ actionResults[2].result = Num(2)
    /\ completedActions[S_poll].result = Num(2)

(***************************************************************************)
(* C17.  No step of an action's retry cycle other than a successful        *)
(* attempt changes the outputs or the completed actions: not a failed      *)
(* attempt (before a later success or after a retry reset), not a delay,   *)
(* not the escalation and not the handling of its answer.                  *)
(***************************************************************************)
C17_OnlySuccessWrites ==
    [][/\ pc \in {"attempt", "delay", "escalate", "decide"}
       /\ ~(pc = "attempt" /\ actionResult'.status = "success")
       => UNCHANGED <<outputs, completedActions>>]_vars

\* fetch succeeded at its fifth call, after three failures, a retry answer
\* and one more failure, and only now is its output k1 published
C17_Witness ==
    /\ actionResult.status = "success" /\ actionResult.action = S_fetch
    /\ resets = 1 /\ attempts = 5
    /\ DOMAIN outputs = {S_k1} /\ DOMAIN completedActions = {S_fetch}

(***************************************************************************)
(* C18.  Within a run the actions are handled one at a time in the order   *)
(* of orderedPlan: while the for loop stands at position idx every earlier *)
(* position has been resolved (recorded as success or failure, or          *)
(* skipped) and no later one has been touched; executeAction is called     *)
(* only by the retry loop of the action at idx, one call per step, and the *)
(* actions it was called for appear in executed in plan order.             *)
(***************************************************************************)
Skipped == Cardinality({i \in 1..Len(chatHistory) : chatHistory[i].kind = "skipping"})

C18_Sequential ==
    /\ [](pc \in {"loop", "attempt", "delay", "escalate", "decide", "summarize"}
          => /\ Len(actionResults) + Skipped = idx - 1
             /\ Len(executed) <= idx
             /\ pc \in {"attempt", "delay", "escalate", "decide"} /\ attempts > 0
                => executed[Len(executed)].action = orderedPlan[idx].id)
    /\ [][attempts' # attempts /\ attempts' > 0
          => /\ pc = "attempt"
             /\ attempts' = attempts + 1
             /\ idx' \in {idx, idx + 1}
             /\ executed'[Len(executed')].action = orderedPlan[idx].id]_vars

\* the second action is in its retry cycle (two calls made) after the first
\* was resolved by a success
C18_Witness ==
    /\ idx = 2 /\ pc = "delay" /\ attempts = 2
    /\ Len(actionResults) = 1 /\ actionResults[1].status = "success"
    /\ Len(executed) = 2 /\ resets = 0

(***************************************************************************)
(* resolveParameters alone: it is applied to a parameter object of at most *)
(* MaxParams entries and an output store, both drawn from the sets below.  *)
(* The values are literals of every type, strings that begin with          *)
(* '$outputs.' and strings that almost do, and an object and an array that *)
(* hold such a string; the stores hold a nested object, falsy values and   *)
(* null under the keys a and c, or lack them.                              *)
(***************************************************************************)
S_x == <<"x">>

\* '$outputs.' followed by rest
Ref(rest) == Str(OutputsPrefix \o rest)

ResKeys == {S_x, S_v, S_proto}

ResValues ==
    {Num(5), Null, Bool(FALSE), Str(<<>>),
     Str(<<"$", "o", "u", "t", "p", "u", "t", "s">>),
     Str(<<" ">> \o OutputsPrefix \o S_a),
     Obj([k \in {S_b} |-> Ref(S_a)]),
     Arr(<<Ref(S_a)>>),
     Ref(<<>>),
     Ref(S_a),
     Ref(S_c),
     Ref(<<"a", ".", "b", "[", "0", "]">>),
     Ref(<<"a", ".", "b", "[", "5", "]">>),
     Ref(<<"a", ".", "z">>),
     Ref(<<"a", ".", "b", ".", "z">>)}

\* the parameter objects: entries under distinct keys, in insertion order
ResParamSet ==
    {ps \in UNION {[1..n -> [key : ResKeys, value : ResValues]] : n \in 1..MaxParams} :
        \A i, j \in 1..Len(ps) : ps[i].key = ps[j].key => i = j}

\* what the store may hold under a and under c (Undefined: the key is absent)
ResStoredA ==
    {Undefined, Num(0), Null,
     Obj([k \in {S_b} |-> Arr(<<Num(42), Num(43)>>)]),
     Obj([k \in {S_b} |-> Null])}
ResStoredC == {Undefined, Num(0), Bool(FALSE), Str(<<>>), Num(9)}

ResOutputSet ==
    {[k \in {n \in {S_a, S_c} : (IF n = S_a THEN va ELSE vc) # Undefined} |->
         IF k = S_a THEN va ELSE vc] : va \in ResStoredA, vc \in ResStoredC}

InitRes ==
    /\ pc = "res"
    /\ instructions = 0
    /\ plan = <<>>
    /\ orderedPlan = <<>>
    /\ idx = 0
    /\ outputs = EmptyMap
    /\ completedActions = EmptyMap
    /\ chatHistory = <<>>
    /\ actionResults = <<>>
    /\ actionResult = NoActionResult
    /\ resolvedParams = <<>>
    /\ decision = NoDecision
    /\ dataStore = [actions |-> EmptyMap, conversations |-> <<>>]
    /\ configSources = EmptyMap
    /\ configs = EmptyMap
    /\ clock = 0
    /\ executed = <<>>
    /\ attempts = 0
    /\ delays = <<>>
    /\ oracleCalls = 0
    /\ resets = 0
    /\ thrown = NoError
    /\ response = NoResponse
    /\ LinIdle
    /\ resParams \in ResParamSet
    /\ resOutputs \in ResOutputSet
    /\ resResult = NotRun
    /\ CapIdle
    /\ ConcIdle
    /\ SessIdle
    /\ ExecIdle

\* resolveParameters(parameters, outputs) is called
Resolve ==
    /\ pc = "res"
    /\ resResult' = resolveParameters(resParams, resOutputs)
    /\ pc' = "res-done"
    /\ UNCHANGED <<mainVars, linVars, resParams, resOutputs, capVars, concVars,
                   sessVars, execVars>>

NextRes == Resolve

SpecRes == InitRes /\ [][NextRes]_vars

(***************************************************************************)
(* What a reference denotes: the value stored under its first segment,     *)
(* with the remaining segments applied as property reads, in order.        *)
(***************************************************************************)
IsReference(value) == value.t = "string" /\ StartsWith(value.v, OutputsPrefix)

RefPath(value) == SplitPath(SubSeq(value.v, Len(OutputsPrefix) + 1, Len(value.v)),
                            <<>>, <<>>)

RECURSIVE Denoted(_, _, _)
\* x with the segments of path from the i-th on applied: "undefined" when a
\* read yields undefined, "null" when a property of null is to be read
Denoted(x, path, i) ==
    IF i > Len(path) THEN [is |-> "value", value |-> x]
    ELSE IF x.t = "null" THEN [is |-> "null"]
    ELSE IF GetProperty(x, path[i]) = Undefined THEN [is |-> "undefined"]
    ELSE Denoted(GetProperty(x, path[i]), path, i + 1)

\* what the reference value denotes in the store outs
RefValue(value, outs) ==
    LET path == RefPath(value)
    IN IF path = <<>> \/ path[1] \notin DOMAIN outs THEN [is |-> "missing"]
       ELSE Denoted(outs[path[1]], path, 2)

\* the entries of a parameter object, as a function of their keys
AsMap(ps) == [k \in {ps[i].key : i \in 1..Len(ps)} |->
                 (CHOOSE e \in Range(ps) : e.key = k).value]

(***************************************************************************)
(* C14.  When no value of the parameter object is a string beginning with  *)
(* '$outputs.', resolveParameters returns an object equal to its input:    *)
(* the same keys with the same values, nested objects and arrays           *)
(* untouched, whatever the output store holds.                             *)
(***************************************************************************)
C14_Identity ==
    pc = "res-done" /\ (\A i \in 1..Len(resParams) : ~IsReference(resParams[i].value))
    => resResult.ok /\ resResult.params = resParams

(***************************************************************************)
(* C15.  When every reference of the parameter object denotes a value (its *)
(* first segment is a key of the store and no read on its path yields      *)
(* undefined or meets null), resolveParameters returns an object in which  *)
(* each key other than '__proto__' that held a reference holds the value   *)
(* denoted; the other values are as C14 says.                              *)
(***************************************************************************)
C15_ReferenceResolved ==
    /\ pc = "res-done"
    /\ \A i \in 1..Len(resParams) :
          IsReference(resParams[i].value)
          => RefValue(resParams[i].value, resOutputs).is = "value"
    => /\ resResult.ok
       /\ \A i \in 1..Len(resParams) :
             IsReference(resParams[i].value) /\ resParams[i].key # S_proto
             => /\ resParams[i].key \in DOMAIN AsMap(resResult.params)
                /\ AsMap(resResult.params)[resParams[i].key]
                      = RefValue(resParams[i].value, resOutputs).value

(***************************************************************************)
(* C16.  When the first entry that resolveParameters cannot resolve holds  *)
(* a reference whose first segment is not a key of the store, or on whose  *)
(* path a read yields undefined, resolveParameters throws an error that    *)
(* names the key of that entry, and returns no object.                     *)
(***************************************************************************)
\* the first entry whose reference does not denote a value, 0 if there is none
FirstUnresolved(ps, outs) ==
    LET bad == {i \in 1..Len(ps) :
                   IsReference(ps[i].value) /\ RefValue(ps[i].value, outs).is # "value"}
    IN IF bad = {} THEN 0 ELSE CHOOSE i \in bad : \A j \in bad : i <= j

C16_UnresolvedReferenceNamed ==
    LET i == FirstUnresolved(resParams, resOutputs)
    IN /\ pc = "res-done"
       /\ i # 0
       /\ RefValue(resParams[i].value, resOutputs).is \in {"missing", "undefined"}
       /\ \A j \in 1..(i - 1) : ResolveEntry(resParams[j].key, resParams[j].value,
                                              resOutputs).ok
       => /\ ~resResult.ok
          /\ resResult.error.kind \in {"MissingOutput", "InvalidPath"}
          /\ resResult.error.param = resParams[i].key

\* x = '$outputs.a.b[5]' against {a: {b: [42, 43]}}: the index read yields
\* undefined and the error names x
C16_Witness ==
    /\ pc = "res-done"
    /\ resParams = <<[key |-> S_x, value |-> Ref(<<"a", ".", "b", "[", "5", "]">>)]>>
    /\ resOutputs = [k \in {S_a} |-> Obj([n \in {S_b} |-> Arr(<<Num(42), Num(43)>>)])]
    /\ resResult = [ok |-> FALSE,
                    error |-> [kind |-> "InvalidPath", param |-> S_x,
                               value |-> resParams[1].value.v]]

\* {x: '$outputs.a.b[0]'} against {a: {b: [42, 43]}} gives {x: 42}
C15_Example ==
    /\ pc = "res-done"
    /\ resParams = <<[key |-> S_x, value |-> Ref(<<"a", ".", "b", "[", "0", "]">>)]>>
    /\ resOutputs = [k \in {S_a} |-> Obj([n \in {S_b} |-> Arr(<<Num(42), Num(43)>>)])]
    => resResult = [ok |-> TRUE, params |-> <<[key |-> S_x, value |-> Num(42)]>>]

(***************************************************************************)
(* AIWEBot.isValidAIWEConfig.  A response body is a JavaScript value; the  *)
(* objects of a body are records (functions of plain property names).  A   *)
(* body on which the validation would read a property of null or           *)
(* undefined makes it throw a TypeError, which the caller catches with the *)
(* same catch as the Error it throws itself for a body found invalid: the  *)
(* operator is FALSE for such a body.                                      *)
(***************************************************************************)
\* typeof x
TypeOf(x) == IF x.t \in {"null", "object", "array"} THEN "object" ELSE x.t

\* the property read x.name of an object or array body (no own property of an
\* array has one of the names read here)
Field(x, name) ==
    IF x.t = "object" /\ name \in DOMAIN x.v THEN x.v[name] ELSE Undefined

\* name in x
HasField(x, name) == x.t = "object" /\ name \in DOMAIN x.v

\* the values of Object.entries(x) for an object or an array
EntryValues(x) == IF x.t = "object" THEN {x.v[k] : k \in DOMAIN x.v} ELSE Range(x.v)

S_array == <<"a", "r", "r", "a", "y">>

ValidItemParam(itemParam) ==
    /\ ~Falsy(itemParam) /\ TypeOf(itemParam) = "object"
    /\ TypeOf(Field(itemParam, "type")) = "string"
    /\ HasField(itemParam, "required")
          => TypeOf(Field(itemParam, "required")) = "boolean"

ValidParam(param) ==
    IF Falsy(param) \/ TypeOf(param) # "object" THEN FALSE
    ELSE IF TypeOf(Field(param, "type")) # "string" THEN FALSE
    ELSE IF HasField(param, "required") /\ TypeOf(Field(param, "required")) # "boolean"
         THEN FALSE
    ELSE IF Field(param, "type") = Str(S_array) /\ ~Falsy(Field(param, "items"))
         THEN IF TypeOf(Field(param, "items")) # "object" THEN FALSE
              ELSE \A itemParam \in EntryValues(Field(param, "items")) :
                      ValidItemParam(itemParam)
    ELSE ~(HasField(param, "enum") /\ Field(param, "enum").t # "array")

ValidAction(action) ==
    IF action.t \in {"null", "undefined"} THEN FALSE
    ELSE IF TypeOf(Field(action, "name")) # "string"
            \/ TypeOf(Field(action, "description")) # "string" THEN FALSE
    ELSE IF ~Falsy(Field(action, "parameters"))
         THEN IF TypeOf(Field(action, "parameters")) # "object" THEN FALSE
              ELSE \A param \in EntryValues(Field(action, "parameters")) :
                      ValidParam(param)
    ELSE TRUE

isValidAIWEConfig(config) ==
    IF Falsy(config) \/ TypeOf(config) # "object" THEN FALSE
    ELSE IF \/ TypeOf(Field(config, "service")) # "string"
            \/ TypeOf(Field(config, "description")) # "string"
            \/ Field(config, "actions").t # "array" THEN FALSE
    ELSE \A i \in 1..Len(Field(config, "actions").v) :
            ValidAction(Field(config, "actions").v[i])

(***************************************************************************)
(* getAIWEConfig alone.  A GET either fails (network error, status outside *)
(* 2xx) or answers with one of the bodies below; the bridges are those of  *)
(* community-bridges.ts.                                                   *)
(***************************************************************************)
S_string == <<"s", "t", "r", "i", "n", "g">>

\* a catalog with one action whose parameter object is parameters
\* (Undefined: the action declares none)
Catalog(service, parameters) ==
    Obj([service |-> Str(service), description |-> Str(S_d),
         actions |-> Arr(<<IF parameters = Undefined
                           THEN Obj([name |-> Str(S_fetch), description |-> Str(S_d)])
                           ELSE Obj([name |-> Str(S_fetch), description |-> Str(S_d),
                                     parameters |-> parameters])>>)])

\* the bodies a manifest endpoint may answer with
ManifestBodies ==
    {Catalog(S_a, Undefined),
     Catalog(S_b, Obj([q |-> Obj([type |-> Str(S_string), required |-> Bool(TRUE)])])),
     Catalog(S_a, Obj([q |-> Obj([type |-> Str(S_array),
                                  items |-> Obj([n |-> Obj([type |-> Str(S_string)])]),
                                  enum |-> Num(1)])])),
     Null,
     Str(<<"<">>),
     Obj([service |-> Str(S_a), actions |-> Arr(<<>>)]),
     Obj([service |-> Str(S_a), description |-> Str(S_d), actions |-> Obj([n |-> Null])]),
     Obj([service |-> Str(S_a), description |-> Str(S_d), actions |-> Arr(<<Null>>)]),
     Catalog(S_a, Obj([q |-> Obj([required |-> Bool(TRUE)])])),
     Catalog(S_a, Obj([q |-> Obj([type |-> Str(S_string), enum |-> Num(1)])]))}

FetchFailure == [ok |-> FALSE]

\* what axios.get may do
FetchOutcomes == {FetchFailure} \cup {[ok |-> TRUE, data |-> b] : b \in ManifestBodies}

\* the service names getAIWEConfig is called with
CapServices == {"stripe.com", "github.com", "acme"}

NoIntegration(serviceName) == [kind |-> "NoIntegration", service |-> serviceName]

InitCap ==
    /\ pc = "cap-idle"
    /\ instructions = 0
    /\ plan = <<>>
    /\ orderedPlan = <<>>
    /\ idx = 0
    /\ outputs = EmptyMap
    /\ completedActions = EmptyMap
    /\ chatHistory = <<>>
    /\ actionResults = <<>>
    /\ actionResult = NoActionResult
    /\ resolvedParams = <<>>
    /\ decision = NoDecision
    /\ dataStore = [actions |-> EmptyMap, conversations |-> <<>>]
    /\ configSources = EmptyMap
    /\ configs = EmptyMap
    /\ clock = 0
    /\ executed = <<>>
    /\ attempts = 0
    /\ delays = <<>>
    /\ oracleCalls = 0
    /\ resets = 0
    /\ thrown = NoError
    /\ response = NoResponse
    /\ LinIdle
    /\ ResIdle
    /\ CapIdle
    /\ ConcIdle
    /\ SessIdle
    /\ ExecIdle

\* everything but pc, configSources and the variables of getAIWEConfig alone
capFrame == <<instructions, plan, runVars, decision, dataStore, configs, clock,
              logVars, thrown, response, linVars, resVars, concVars, sessVars, execVars>>

\* getAIWEConfig(serviceName) is called: the official endpoint is requested
GetAIWEConfig(serviceName) ==
    /\ pc = "cap-idle"
    /\ capCalls < MaxResolves
    /\ capCalls' = capCalls + 1
    /\ capService' = serviceName
    /\ capTried' = <<>>
    /\ capResult' = NotResolved
    /\ pc' = "cap-official"
    /\ UNCHANGED <<capFrame, configSources>>

\* an official endpoint whose body is returned without validation
OfficialAnswersUnvalidated(outcome) ==
    /\ pc = "cap-official"
    /\ capTried' = Append(capTried, [tier |-> "official", outcome |-> outcome])
    /\ IF outcome.ok
       THEN /\ configSources' = MapSet(configSources, capService, "official")
            /\ capResult' = [ok |-> TRUE, config |-> outcome.data]
            /\ pc' = "cap-idle"
       ELSE /\ pc' = "cap-cloud"
            /\ UNCHANGED <<configSources, capResult>>
    /\ UNCHANGED <<capFrame, capService, capCalls>>

\* the official endpoint answers: a valid body is recorded as 'official' and
\* returned; otherwise the catch requests the aiwe.cloud manifest
OfficialAnswers(outcome) ==
    /\ pc = "cap-official"
    /\ capTried' = Append(capTried, [tier |-> "official", outcome |-> outcome])
    /\ IF outcome.ok /\ isValidAIWEConfig(outcome.data)
       THEN /\ configSources' = MapSet(configSources, capService, "official")
            /\ capResult' = [ok |-> TRUE, config |-> outcome.data]
            /\ pc' = "cap-idle"
       ELSE /\ pc' = "cap-cloud"
            /\ UNCHANGED <<configSources, capResult>>
    /\ UNCHANGED <<capFrame, capService, capCalls>>

\* an inner catch that throws without looking for an adapter
CloudAnswersNoAdapter(outcome) ==
    /\ pc = "cap-cloud"
    /\ pc' = "cap-idle"
    /\ IF outcome.ok /\ isValidAIWEConfig(outcome.data)
       THEN /\ capTried' = Append(capTried, [tier |-> "aiwe.cloud", outcome |-> outcome])
            /\ configSources' = MapSet(configSources, capService, "aiwe.cloud")
            /\ capResult' = [ok |-> TRUE, config |-> outcome.data]
       ELSE /\ capTried' = Append(capTried, [tier |-> "aiwe.cloud", outcome |-> outcome])
            /\ capResult' = [ok |-> FALSE, error |-> NoIntegration(capService)]
            /\ UNCHANGED configSources
    /\ UNCHANGED <<capFrame, capService, capCalls>>

\* the aiwe.cloud manifest answers: a valid body is recorded as 'aiwe.cloud'
\* and returned; otherwise the inner catch looks the service up among the
\* adapters, records 'bridge' and returns the adapter's config if there is
\* one, and throws if there is none
CloudAnswers(outcome) ==
    /\ pc = "cap-cloud"
    /\ pc' = "cap-idle"
    /\ IF outcome.ok /\ isValidAIWEConfig(outcome.data)
       THEN /\ capTried' = Append(capTried, [tier |-> "aiwe.cloud", outcome |-> outcome])
            /\ configSources' = MapSet(configSources, capService, "aiwe.cloud")
            /\ capResult' = [ok |-> TRUE, config |-> outcome.data]
       ELSE /\ capTried' = capTried \o
                              <<[tier |-> "aiwe.cloud", outcome |-> outcome],
                                [tier |-> "bridge",
                                 outcome |-> IF capService \in DOMAIN communityBridges
                                             THEN [ok |-> TRUE,
                                                   data |-> communityBridges[capService].config]
                                             ELSE FetchFailure]>>
            /\ IF capService \in DOMAIN communityBridges
               THEN /\ configSources' = MapSet(configSources, capService, "bridge")
                    /\ capResult' = [ok |-> TRUE,
                                     config |-> communityBridges[capService].config]
               ELSE /\ capResult' = [ok |-> FALSE, error |-> NoIntegration(capService)]
                    /\ UNCHANGED configSources
    /\ UNCHANGED <<capFrame, capService, capCalls>>

NextCap ==
    \/ \E serviceName \in CapServices : GetAIWEConfig(serviceName)
    \/ \E outcome \in FetchOutcomes : OfficialAnswers(outcome)
    \/ \E outcome \in FetchOutcomes : CloudAnswers(outcome)

SpecCap == InitCap /\ [][NextCap]_vars

(***************************************************************************)
(* The tiers in the order of the lookup, and when a tier has failed.       *)
(***************************************************************************)
TierOrder == <<"official", "aiwe.cloud", "bridge">>

\* the tier did not supply a catalog: the fetch failed or its body did not
\* pass the validation; no adapter is registered
TierFailed(tried) ==
    IF tried.tier = "bridge" THEN ~tried.outcome.ok
    ELSE ~tried.outcome.ok \/ ~isValidAIWEConfig(tried.outcome.data)

\* a call of getAIWEConfig has returned or thrown
CapEnded == pc = "cap-idle" /\ capResult # NotResolved

ConcServices == {"acme", "stripe.com"}

InitConc ==
    /\ pc = "conc"
    /\ instructions = 0
    /\ plan = <<>>
    /\ orderedPlan = <<>>
    /\ idx = 0
    /\ outputs = EmptyMap
    /\ completedActions = EmptyMap
    /\ chatHistory = <<>>
    /\ actionResults = <<>>
    /\ actionResult = NoActionResult
    /\ resolvedParams = <<>>
    /\ decision = NoDecision
    /\ dataStore = [actions |-> EmptyMap, conversations |-> <<>>]
    /\ configSources = EmptyMap
    /\ configs = EmptyMap
    /\ clock = 0
    /\ executed = <<>>
    /\ attempts = 0
    /\ delays = <<>>
    /\ oracleCalls = 0
    /\ resets = 0
    /\ thrown = NoError
    /\ response = NoResponse
    /\ LinIdle
    /\ ResIdle
    /\ CapIdle
    /\ ConcIdle
    /\ SessIdle
    /\ ExecIdle

\* everything but dataStore, configSources and the variables of the runs
concFrame == <<pc, instructions, plan, runVars, decision, configs, clock, logVars,
               thrown, response, linVars, resVars, capVars, sessVars, execVars>>

\* the summary of the run r
SummaryOf(r) == <<"summary", r>>

\* processInstruction is called for the instruction r: the conversation is
\* pushed, the analysis and the website are awaited and getAIWEConfig requests
\* the official endpoint of the service
RunStarts(r, service) ==
    /\ runPc[r] = "idle"
    /\ dataStore' = PushConversation(dataStore, clock, r)
    /\ runConv' = [runConv EXCEPT ![r] = Len(dataStore.conversations) + 1]
    /\ runService' = [runService EXCEPT ![r] = service]
    /\ runPc' = [runPc EXCEPT ![r] = "official"]
    /\ UNCHANGED <<concFrame, configSources, runTier, runDispatch>>

\* the official endpoint answers the run: a valid catalog is recorded as
\* 'official' and the plan is requested; otherwise aiwe.cloud is requested
RunOfficialAnswers(r, serves) ==
    /\ runPc[r] = "official"
    /\ IF serves
       THEN /\ configSources' = MapSet(configSources, runService[r], "official")
            /\ runTier' = [runTier EXCEPT ![r] = "official"]
            /\ runPc' = [runPc EXCEPT ![r] = "plan"]
       ELSE /\ runPc' = [runPc EXCEPT ![r] = "cloud"]
            /\ UNCHANGED <<configSources, runTier>>
    /\ UNCHANGED <<concFrame, dataStore, runService, runDispatch, runConv>>

\* aiwe.cloud answers the run: a valid catalog is recorded as 'aiwe.cloud';
\* otherwise a registered bridge is recorded as 'bridge', and without one the
\* oracle is asked to explain the error
RunCloudAnswers(r, serves) ==
    /\ runPc[r] = "cloud"
    /\ IF serves
       THEN /\ configSources' = MapSet(configSources, runService[r], "aiwe.cloud")
            /\ runTier' = [runTier EXCEPT ![r] = "aiwe.cloud"]
            /\ runPc' = [runPc EXCEPT ![r] = "plan"]
       ELSE IF runService[r] \in DOMAIN communityBridges
       THEN /\ configSources' = MapSet(configSources, runService[r], "bridge")
            /\ runTier' = [runTier EXCEPT ![r] = "bridge"]
            /\ runPc' = [runPc EXCEPT ![r] = "plan"]
       ELSE /\ runPc' = [runPc EXCEPT ![r] = "explain"]
            /\ UNCHANGED <<configSources, runTier>>
    /\ UNCHANGED <<concFrame, dataStore, runService, runDispatch, runConv>>

\* the oracle's explanation is returned as the response of the run
RunExplained(r) ==
    /\ runPc[r] = "explain"
    /\ runPc' = [runPc EXCEPT ![r] = "returned"]
    /\ UNCHANGED <<concFrame, dataStore, configSources, runService, runTier,
                   runDispatch, runConv>>

\* the plan arrives and executePlan reaches executeAction, which reads the
\* source recorded for config.service and calls the backend of that source
RunDispatches(r) ==
    /\ runPc[r] = "plan"
    /\ runDispatch' = [runDispatch EXCEPT ![r] = configSources[runService[r]]]
    /\ runPc' = [runPc EXCEPT ![r] = "call"]
    /\ UNCHANGED <<concFrame, dataStore, configSources, runService, runTier, runConv>>

\* the call returns: the result is stored under the action id and the oracle
\* is asked for the final summary
RunActionReturns(r) ==
    /\ runPc[r] = "call"
    /\ dataStore' = [dataStore EXCEPT !.actions =
                        MapSet(@, S_fetch,
                               [website |-> runService[r], result |-> Num(r),
                                timestamp |-> clock, parameters |-> <<>>])]
    /\ runPc' = [runPc EXCEPT ![r] = "summary"]
    /\ UNCHANGED <<concFrame, configSources, runService, runTier, runDispatch, runConv>>

\* the summary arrives: it is stored as the response of the last
\* conversation and returned
RunSummarizes(r) ==
    /\ runPc[r] = "summary"
    /\ dataStore' = [dataStore EXCEPT
                        !.conversations[Len(dataStore.conversations)].response =
                            SummaryOf(r)]
    /\ runPc' = [runPc EXCEPT ![r] = "returned"]
    /\ UNCHANGED <<concFrame, configSources, runService, runTier, runDispatch, runConv>>

NextConc ==
    \/ \E r \in Runs, service \in ConcServices : RunStarts(r, service)
    \/ \E r \in Runs, serves \in BOOLEAN : RunOfficialAnswers(r, serves)
    \/ \E r \in Runs, serves \in BOOLEAN : RunCloudAnswers(r, serves)
    \/ \E r \in Runs : RunExplained(r)
    \/ \E r \in Runs : RunDispatches(r)
    \/ \E r \in Runs : RunActionReturns(r)
    \/ \E r \in Runs : RunSummarizes(r)

SpecConc == InitConc /\ [][NextConc]_vars

(***************************************************************************)
(* C19.  Whatever the interleaving, a run dispatches its action through    *)
(* the tier that supplied its own catalog, and when it has returned its    *)
(* summary, the summary is the response of the conversation the run itself *)
(* pushed, and it has written to no conversation of another run.           *)
(***************************************************************************)
C19_NoInterference ==
    \A r \in Runs :
        /\ runDispatch[r] # "none" => runDispatch[r] = runTier[r]
        /\ runPc[r] = "returned" /\ runTier[r] # "none"
           => /\ dataStore.conversations[runConv[r]].response = SummaryOf(r)
              /\ \A i \in 1..Len(dataStore.conversations) :
                    dataStore.conversations[i].response = SummaryOf(r)
                    => i = runConv[r]

(***************************************************************************)
(* SessionManager.  Its callers pass Session objects it returned earlier   *)
(* to updateSession and addMessage; held is the set of returned objects    *)
(* that some caller has kept (keep tells whether the caller of an          *)
(* operation keeps what it returns).  Date.now() advances with every call  *)
(* that stores, and the content of a message is the number of the call     *)
(* that brought it.                                                        *)
(***************************************************************************)
InitSess ==
    /\ pc = "sess"
    /\ instructions = 0
    /\ plan = <<>>
    /\ orderedPlan = <<>>
    /\ idx = 0
    /\ outputs = EmptyMap
    /\ completedActions = EmptyMap
    /\ chatHistory = <<>>
    /\ actionResults = <<>>
    /\ actionResult = NoActionResult
    /\ resolvedParams = <<>>
    /\ decision = NoDecision
    /\ dataStore = [actions |-> EmptyMap, conversations |-> <<>>]
    /\ configSources = EmptyMap
    /\ configs = EmptyMap
    /\ clock = 0
    /\ executed = <<>>
    /\ attempts = 0
    /\ delays = <<>>
    /\ oracleCalls = 0
    /\ resets = 0
    /\ thrown = NoError
    /\ response = NoResponse
    /\ LinIdle
    /\ ResIdle
    /\ CapIdle
    /\ ConcIdle
    /\ SessIdle
    /\ ExecIdle

\* everything but clock and the variables of the SessionManager
sessFrame == <<pc, instructions, plan, runVars, decision, dataStore, configSources,
               configs, logVars, thrown, response, linVars, resVars, capVars,
               concVars, execVars>>

Message(role, content, timestamp) ==
    [role |-> role, content |-> content, timestamp |-> timestamp]

\* createSession(message): a session with a fresh id and the message as its
\* first is stored and returned
CreateSession(keep) ==
    /\ sessCalls < MaxSessionCalls
    /\ Cardinality(DOMAIN sessions) < MaxSessions
    /\ sessCalls' = sessCalls + 1
    /\ clock' = clock + 1
    /\ LET session == [id |-> Cardinality(DOMAIN sessions) + 1,
                       startTime |-> clock', lastUpdateTime |-> clock',
                       messages |-> <<Message("user", sessCalls', clock')>>]
       IN /\ sessions' = MapSet(sessions, session.id, session)
          /\ held' = IF keep THEN held \cup {session} ELSE held
    /\ UNCHANGED sessFrame

\* getSession(sessionId) of a stored session: the stored object is returned
GetSession(sessionId) ==
    /\ sessionId \in DOMAIN sessions
    /\ sessions[sessionId] \notin held
    /\ held' = held \cup {sessions[sessionId]}
    /\ UNCHANGED <<sessFrame, clock, sessions, sessCalls>>

\* the object both updateSession and addMessage build from their argument
WithMessage(session, role, content, now) ==
    [session EXCEPT !.lastUpdateTime = now,
                    !.messages = Append(session.messages, Message(role, content, now))]

\* updateSession(session, response): the object built from the argument is
\* stored under its id and returned
UpdateSession(session, keep) ==
    /\ sessCalls < MaxSessionCalls
    /\ sessCalls' = sessCalls + 1
    /\ clock' = clock + 1
    /\ LET updatedSession == WithMessage(session, "assistant", sessCalls', clock')
       IN /\ sessions' = MapSet(sessions, session.id, updatedSession)
          /\ held' = IF keep THEN held \cup {updatedSession} ELSE held
    /\ UNCHANGED sessFrame

\* addMessage(session, message): the object built from the argument is
\* stored under its id and returned
AddMessage(session, keep) ==
    /\ sessCalls < MaxSessionCalls
    /\ sessCalls' = sessCalls + 1
    /\ clock' = clock + 1
    /\ LET updatedSession == WithMessage(session, "user", sessCalls', clock')
       IN /\ sessions' = MapSet(sessions, session.id, updatedSession)
          /\ held' = IF keep THEN held \cup {updatedSession} ELSE held
    /\ UNCHANGED sessFrame

NextSess ==
    \/ \E keep \in BOOLEAN : CreateSession(keep)
    \/ \E sessionId \in DOMAIN sessions : GetSession(sessionId)
    \/ \E session \in held, keep \in BOOLEAN : UpdateSession(session, keep)
    \/ \E session \in held, keep \in BOOLEAN : AddMessage(session, keep)

SpecSess == InitSess /\ [][NextSess]_vars

(***************************************************************************)
(* C20.  Every call of addMessage or updateSession for a stored session    *)
(* extends the stored messages of that session by exactly one message at   *)
(* the end and leaves the messages stored before in their places, also     *)
(* when the object passed was obtained before an earlier append; the       *)
(* messages of the other sessions are not changed.                         *)
(***************************************************************************)
C20_AppendOnly ==
    [][\A id \in DOMAIN sessions :
          sessions'[id] # sessions[id]
          => /\ Len(sessions'[id].messages) = Len(sessions[id].messages) + 1
             /\ SubSeq(sessions'[id].messages, 1, Len(sessions[id].messages))
                   = sessions[id].messages]_vars

(***************************************************************************)
(* Further claims about the linearizers alone.                             *)
(***************************************************************************)
PlanIds(p) == {p[i].id : i \in 1..Len(p)}

\* the earliest action of p, in submission order, that is not placed yet and
\* whose dependencies among the actions of p are all placed; 0 if there is none
EarliestEligible(p, placed) ==
    LET eligible == {i \in 1..Len(p) :
                        /\ p[i].id \notin placed
                        /\ Range(p[i].dependsOn) \cap PlanIds(p) \subseteq placed}
    IN IF eligible = {} THEN 0 ELSE CHOOSE i \in eligible : \A j \in eligible : i <= j

\* at every position of order stands the earliest action eligible at that point
TieBreakOrder(order, p) ==
    /\ Len(order) = Len(p)
    /\ \A k \in 1..Len(order) :
          LET e == EarliestEligible(p, {order[m].id : m \in 1..(k - 1)})
          IN e # 0 /\ order[k] = p[e]

(***************************************************************************)
(* C23.  For every plan with unique ids whose dependsOn entries name ids   *)
(* of actions of the plan and whose dependency graph is acyclic, each      *)
(* linearizer returns the order in which, at every position, the action    *)
(* placed is the earliest in submission order among the actions whose      *)
(* dependencies are all placed; a plan without dependencies is returned    *)
(* as submitted.                                                           *)
(***************************************************************************)
C23_TieBreak ==
    pc = "lin-done" /\ UniqueIds(linPlan) /\ DepsInPlan(linPlan) /\ ~CyclicIds(linPlan)
    => /\ linUtils.ok /\ TieBreakOrder(linUtils.plan, linPlan)
       /\ linBot.ok /\ TieBreakOrder(linBot.plan, linPlan)

\* the part of C23 about plans without dependencies
NoDependencies(p) == \A i \in 1..Len(p) : p[i].dependsOn = <<>>

C23_SubmissionOrder ==
    pc = "lin-done" /\ NoDependencies(linPlan) /\ UniqueIds(linPlan)
    => /\ linUtils = [ok |-> TRUE, plan |-> linPlan]
       /\ linBot = [ok |-> TRUE, plan |-> linPlan]

\* p without the dependsOn entries that name no action of p
RECURSIVE KeepIn(_, _)
KeepIn(deps, ids) ==
    IF deps = <<>> THEN <<>>
    ELSE IF Head(deps) \in ids THEN <<Head(deps)>> \o KeepIn(Tail(deps), ids)
         ELSE KeepIn(Tail(deps), ids)

WithoutOutsideDeps(p) ==
    [i \in 1..Len(p) |-> [p[i] EXCEPT !.dependsOn = KeepIn(@, PlanIds(p))]]

\* the ids of the actions of an order
IdsOf(order) == [i \in 1..Len(order) |-> order[i].id]

\* two results of a linearizer agree: both fail, or both return orders with
\* the same ids at the same positions
SameOrder(r1, r2) ==
    /\ r1.ok <=> r2.ok
    /\ r1.ok => IdsOf(r1.plan) = IdsOf(r2.plan)

(***************************************************************************)
(* C24.  Each linearizer treats a plan as it treats the same plan with the *)
(* dependsOn entries that name no action of the plan removed: it fails on  *)
(* both or returns the same order of ids for both.                         *)
(***************************************************************************)
C24_OutsideDepsIgnored ==
    pc = "lin-done" /\ UniqueIds(linPlan)
    => /\ SameOrder(linUtils, utilsReorderActionPlan(WithoutOutsideDeps(linPlan)))
       /\ SameOrder(linBot, reorderActionPlan(WithoutOutsideDeps(linPlan)))

\* the part of C24 that holds: Utils.reorderActionPlan ignores such entries
C24_UtilsIgnoresOutsideDeps ==
    pc = "lin-done"
    => SameOrder(linUtils, utilsReorderActionPlan(WithoutOutsideDeps(linPlan)))

(***************************************************************************)
(* C29.  On every plan the two linearizers agree: both fail, or both       *)
(* return the same order.                                                  *)
(***************************************************************************)
C29_LinearizersEquivalent ==
    pc = "lin-done" => /\ linUtils.ok <=> linBot.ok
                       /\ linUtils.ok => linUtils.plan = linBot.plan

(***************************************************************************)
(* Further claims about processInstruction / executePlan.                  *)
(***************************************************************************)

(***************************************************************************)
(* C25.  For a plan in which two actions have the same id, executeAction   *)
(* is never called, and the run ends with an error.                        *)
(***************************************************************************)
C25_DuplicateIdsRejected ==
    plan # <<>> /\ ~UniqueIds(plan)
    => /\ executed = <<>> /\ attempts = 0
       /\ RunEnded => response.response.kind = "Error"

\* the errors of the checks executePlan makes before the retry loop
DefectKinds ==
    {"MissingDependency", "MissingOutput", "InvalidPath", "TypeError", "NoConfiguration"}

(***************************************************************************)
(* C26.  An action with a dependsOn entry absent from the outputs, a       *)
(* parameter reference that does not resolve or a website without catalog  *)
(* is never in the retry loop, and when the for loop reaches it the run    *)
(* ends at once with that error as the response: executeAction is not      *)
(* called, nothing is awaited, the oracle is not asked, nothing is         *)
(* recorded.  After the abort executeAction has been called for actions    *)
(* before the defective one only, each of which was recorded.              *)
(***************************************************************************)
C26_DefectAborts ==
    /\ [](/\ pc \in {"attempt", "delay", "escalate", "decide"}
             => PlanDefect(CurrentAction, outputs, configs) = NoError
          /\ pc = "idle" /\ thrown.kind \in DefectKinds
             => /\ idx \in 1..Len(orderedPlan)
                /\ thrown = PlanDefect(CurrentAction, outputs, configs)
                /\ response = ErrorResponse(thrown)
                /\ decision = NoDecision
                /\ Len(executed) = Len(actionResults)
                /\ Len(actionResults) + Skipped = idx - 1)
    /\ [][/\ pc = "loop" /\ idx <= Len(orderedPlan)
          /\ ~SkipsCompleted(CurrentAction, completedActions)
          /\ PlanDefect(CurrentAction, outputs, configs) # NoError
          => /\ pc' = "idle"
             /\ thrown' = PlanDefect(CurrentAction, outputs, configs)
             /\ UNCHANGED <<runVars, logVars, dataStore, decision>>]_vars

\* the run was aborted on an action whose website has no catalog, after an
\* earlier action of the plan was executed and recorded
C26_Witness ==
    /\ pc = "idle" /\ thrown.kind = "NoConfiguration"
    /\ idx = 2 /\ Len(executed) = 1 /\ Len(actionResults) = 1

(***************************************************************************)
(* C28.  When the for loop of a plan run starts, the outputs hold, under   *)
(* its action id, the result of every action recorded as completed: in     *)
(* completedActions, and in dataStore.actions, where the completions of    *)
(* the earlier instructions are kept.                                      *)
(***************************************************************************)
C28_OutputsPreSeeded ==
    pc = "loop" /\ idx = 1
    => /\ \A id \in DOMAIN completedActions :
             id \in DOMAIN outputs /\ outputs[id] = completedActions[id].result
       /\ \A id \in DOMAIN dataStore.actions :
             id \in DOMAIN outputs /\ outputs[id] = dataStore.actions[id].result

RECURSIVE IsSubsequence(_, _)
\* s is t with some elements left out
IsSubsequence(s, t) ==
    IF s = <<>> THEN TRUE
    ELSE IF t = <<>> THEN FALSE
    ELSE IF Head(s) = Head(t) THEN IsSubsequence(Tail(s), Tail(t))
    ELSE IsSubsequence(s, Tail(t))

(***************************************************************************)
(* C30.  Whenever the for loop has finished with an action, the last       *)
(* record of actionResults is that action's: a success record with its     *)
(* result if it succeeded, a failure record with its last error if it was  *)
(* abandoned.  When the for loop has ended, actionResults holds one record *)
(* for each action executeAction was called for and no other, in the       *)
(* order of the calls, which is the order of the linearized plan; the      *)
(* other actions of the plan were skipped as completed.                    *)
(***************************************************************************)
C30_ResultList ==
    /\ pc \in {"loop", "summarize"} /\ actionResults # <<>>
       => LET last == actionResults[Len(actionResults)]
          IN /\ last.id = actionResult.action
             /\ actionResult.status = "success"
                => last = [id |-> actionResult.action, status |-> "success",
                           result |-> actionResult.result]
             /\ actionResult.status # "success"
                => /\ actionResult.retryCount = maxRetries
                   /\ last = [id |-> actionResult.action, status |-> "failure",
                              error |-> actionResult.error]
    /\ pc = "summarize"
       => /\ Len(actionResults) = Len(executed)
          /\ \A i \in 1..Len(executed) : actionResults[i].id = executed[i].action
          /\ IsSubsequence(IdsOf(actionResults), IdsOf(orderedPlan))
          /\ Len(actionResults) + Skipped = Len(orderedPlan)

\* the for loop has ended on a plan of two actions, the first abandoned after
\* an escalation and the second successful
C30_Witness ==
    /\ pc = "summarize" /\ Len(actionResults) = 2
    /\ actionResults[1].status = "failure"
    /\ actionResults[2].status = "success"

(***************************************************************************)
(* executeAction alone, under two values of this.serviceCredentials: the   *)
(* catalog of "svc" was served by the official endpoint or by aiwe.cloud   *)
(* and declares the action fetch and the authentication descriptor         *)
(* authDescriptor.  A descriptor has any type and at most MaxAuthOptions   *)
(* options, each declaring a set of header names (an option without        *)
(* headers declares none); the stores hold, for "svc", any values (''      *)
(* included) under any of the names of StoredNames, or no entry at all,    *)
(* and an entry for another service.                                       *)
(***************************************************************************)
DeclaredNames == {"x-api-key", "constructor"}
StoredNames == {"x-api-key", "x-other"}
StoredValues == {"", "k1", "k2"}

AuthOptions == [headers : SUBSET DeclaredNames]

AuthDescriptors ==
    {NoAuthentication, [type |-> "header", options |-> <<>>],
     [type |-> "oauth", options |-> <<[headers |-> {"x-api-key"}]>>]}
    \cup {[type |-> "header", options |-> o] :
            o \in UNION {[1..n -> AuthOptions] : n \in 1..MaxAuthOptions}}

OtherCredentials == [h \in {"x-api-key"} |-> "k-other"]

CredentialStores ==
    {[s \in {"other"} |-> OtherCredentials]}
    \cup {[s \in {"svc", "other"} |-> IF s = "svc" THEN e ELSE OtherCredentials] :
            e \in UNION {[names -> StoredValues] : names \in SUBSET StoredNames}}

InitAuth ==
    /\ pc = "auth"
    /\ instructions = 0
    /\ plan = <<>>
    /\ orderedPlan = <<>>
    /\ idx = 0
    /\ outputs = EmptyMap
    /\ completedActions = EmptyMap
    /\ chatHistory = <<>>
    /\ actionResults = <<>>
    /\ actionResult = NoActionResult
    /\ resolvedParams = <<>>
    /\ decision = NoDecision
    /\ dataStore = [actions |-> EmptyMap, conversations |-> <<>>]
    /\ configSources = EmptyMap
    /\ configs = EmptyMap
    /\ clock = 0
    /\ executed = <<>>
    /\ attempts = 0
    /\ delays = <<>>
    /\ oracleCalls = 0
    /\ resets = 0
    /\ thrown = NoError
    /\ response = NoResponse
    /\ LinIdle
    /\ ResIdle
    /\ CapIdle
    /\ ConcIdle
    /\ SessIdle
    /\ authCreds \in CredentialStores \X CredentialStores
    /\ authDescriptor \in AuthDescriptors
    /\ authResult = <<NotRun, NotRun>>
    /\ dispResult = NotRun

\* executeAction('fetch', 'svc', {}, config) under each of the two stores,
\* the catalog having been recorded under source and the backend doing resp
\* if it is called
ExecuteUnderBoth(source, resp) ==
    /\ pc = "auth"
    /\ authResult' =
          [i \in {1, 2} |->
              executeAction(authCreds[i], S_fetch, "svc", <<>>,
                            [service |-> "svc", actions |-> {S_fetch},
                             authentication |-> authDescriptor],
                            [s \in {"svc"} |-> source], resp)]
    /\ pc' = "auth-done"
    /\ UNCHANGED <<mainVars, linVars, resVars, capVars, concVars, sessVars,
                   authCreds, authDescriptor, dispResult>>

NextAuth ==
    \E source \in {"official", "aiwe.cloud"}, resp \in Responses(S_fetch) :
        ExecuteUnderBoth(source, resp)

SpecAuth == InitAuth /\ [][NextAuth]_vars

\* the header names declared by the first option of a header-type descriptor
FirstOptionHeaders(descriptor) ==
    IF descriptor.type = "header" /\ descriptor.options # <<>>
    THEN descriptor.options[1].headers ELSE {}

\* the credential the store has configured for the service under a header
\* name; '' if it has none
Configured(store, name) ==
    IF "svc" \in DOMAIN store /\ name \in DOMAIN store["svc"]
    THEN store["svc"][name] ELSE ""

(***************************************************************************)
(* C21.  The headers of a request are the values the store has for the     *)
(* service under the names declared by the first option of a header-type   *)
(* descriptor and nothing else: no name outside the declared ones, no      *)
(* value of another stored key.  Under two stores that have the same       *)
(* credentials for the service under the declared names, executeAction     *)
(* does the same (the same request with the same headers, or the same      *)
(* error).  Without header-type authentication, or without options, a      *)
(* request has no headers.                                                 *)
(***************************************************************************)
C21_OnlyDeclaredHeaders ==
    pc = "auth-done"
    => LET declared == FirstOptionHeaders(authDescriptor)
       IN /\ \A i \in {1, 2} :
                authResult[i].called
                => /\ DOMAIN authResult[i].headers = declared
                   /\ \A h \in declared :
                         authResult[i].headers[h]
                            \in {Configured(authCreds[i], h), InheritedValue}
          /\ (\A h \in declared :
                 Configured(authCreds[1], h) = Configured(authCreds[2], h))
             => authResult[1] = authResult[2]

\* two stores that differ in the key x-other only, a catalog that declares
\* x-api-key: both requests carry x-api-key alone
C21_Witness ==
    /\ pc = "auth-done"
    /\ FirstOptionHeaders(authDescriptor) = {"x-api-key"}
    /\ Configured(authCreds[1], "x-other") = "k1"
    /\ Configured(authCreds[2], "x-other") = ""
    /\ authResult[1].called /\ authResult[2].called
    /\ authResult[1].headers = [h \in {"x-api-key"} |-> "k2"]
    /\ authResult[2].headers = [h \in {"x-api-key"} |-> "k2"]

\* the declared header names for which the store has no credential
MissingNames(store, descriptor) ==
    {h \in FirstOptionHeaders(descriptor) : Configured(store, h) = ""}

(***************************************************************************)
(* C22.  When the store has no credential for at least one header name of  *)
(* the first option, executeAction fails with the credential error, which  *)
(* names the service and exactly the header names without credential, and  *)
(* the backend is not called.                                              *)
(***************************************************************************)
C22_MissingCredentialsListed ==
    pc = "auth-done"
    => \A i \in {1, 2} :
          MissingNames(authCreds[i], authDescriptor) # {}
          => /\ ~authResult[i].ok /\ ~authResult[i].called
             /\ authResult[i].message =
                   [kind |-> "MissingCredentials", service |-> "svc",
                    required |-> MissingNames(authCreds[i], authDescriptor)]

\* C22 for descriptors whose first option declares no name that objects
\* inherit from Object.prototype
C22_OwnNamesOnly ==
    FirstOptionHeaders(authDescriptor) \cap ObjectPrototypeNames = {}
    => C22_MissingCredentialsListed

(***************************************************************************)
(* Catalog resolution followed by dispatch.  The website step names        *)
(* websites (url and serviceName); the config-gathering step stores under  *)
(* the url the catalog getAIWEConfig(serviceName) returns, and             *)
(* getAIWEConfig records under serviceName the tier that supplied it.  A   *)
(* catalog passes the validation whatever string its service property is,  *)
(* so the body may declare the name it was requested under or another      *)
(* one.  Every catalog declares the action getBalance and no               *)
(* authentication.                                                         *)
(***************************************************************************)
Websites ==
    {[url |-> "acme.com", serviceName |-> "acme"],
     [url |-> "stripe.com", serviceName |-> "stripe.com"]}

\* the service names a catalog body may declare
DeclaredServices == {"acme", "stripe.com", "other"}

\* the tiers that can supply a catalog for the service name
TiersFor(serviceName) ==
    {"official", "aiwe.cloud"}
    \cup (IF /\ serviceName \in DOMAIN communityBridges
             /\ communityBridges[serviceName].config # Undefined
          THEN {"bridge"} ELSE {})

InitDispatch ==
    /\ pc = "dispatch"
    /\ instructions = 0
    /\ plan = <<>>
    /\ orderedPlan = <<>>
    /\ idx = 0
    /\ outputs = EmptyMap
    /\ completedActions = EmptyMap
    /\ chatHistory = <<>>
    /\ actionResults = <<>>
    /\ actionResult = NoActionResult
    /\ resolvedParams = <<>>
    /\ decision = NoDecision
    /\ dataStore = [actions |-> EmptyMap, conversations |-> <<>>]
    /\ configSources = EmptyMap
    /\ configs = EmptyMap
    /\ clock = 0
    /\ executed = <<>>
    /\ attempts = 0
    /\ delays = <<>>
    /\ oracleCalls = 0
    /\ resets = 0
    /\ thrown = NoError
    /\ response = NoResponse
    /\ LinIdle
    /\ ResIdle
    /\ CapIdle
    /\ ConcIdle
    /\ SessIdle
    /\ ExecIdle

\* everything but configs, configSources and dispResult
dispatchFrame == <<pc, instructions, plan, runVars, decision, dataStore, clock,
                   logVars, thrown, response, linVars, resVars, capVars, concVars,
                   sessVars, authCreds, authDescriptor, authResult>>

\* configs.set(website.url, await this.getAIWEConfig(website.serviceName)),
\* the catalog being supplied by tier with a body that declares the service
\* name declared
GatherConfig(website, tier, declared) ==
    /\ pc = "dispatch"
    /\ tier \in TiersFor(website.serviceName)
    /\ configSources' = MapSet(configSources, website.serviceName, tier)
    /\ configs' = MapSet(configs, website.url,
                         [service |-> declared, actions |-> {S_getBalance},
                          authentication |-> NoAuthentication])
    /\ UNCHANGED <<dispatchFrame, dispResult>>

\* executePlan calls executeAction for an action of the plan on the website:
\* recorded is the tier recorded for the service name of the website and
\* declared the service name its catalog declares
Dispatch(website, resp) ==
    /\ pc = "dispatch"
    /\ website.url \in DOMAIN configs
    /\ dispResult' =
          [website |-> website,
           recorded |-> configSources[website.serviceName],
           declared |-> configs[website.url].service,
           result |-> executeAction(serviceCredentials, S_getBalance, website.url,
                                    <<>>, configs[website.url], configSources, resp)]
    /\ UNCHANGED <<dispatchFrame, configs, configSources>>

NextDispatch ==
    \/ \E website \in Websites, tier \in Range(TierOrder),
             declared \in DeclaredServices :
          GatherConfig(website, tier, declared)
    \/ \E website \in Websites, resp \in Responses(S_getBalance) :
          Dispatch(website, resp)

SpecDispatch == InitDispatch /\ [][NextDispatch]_vars

(***************************************************************************)
(* C27.  Every call of executeAction for an action of a catalog reaches    *)
(* the backend of the tier recorded for the service name the catalog was   *)
(* resolved under, whatever service name the catalog declares.             *)
(***************************************************************************)
C27_DispatchFollowsTier ==
    dispResult # NotRun
    => /\ dispResult.result.called
       /\ dispResult.result.backend = dispResult.recorded

\* C27 for the catalogs that declare the service name they were requested
\* under
C27_SameName ==
    dispResult # NotRun /\ dispResult.declared = dispResult.website.serviceName
    => /\ dispResult.result.called
       /\ dispResult.result.backend = dispResult.recorded

(***************************************************************************)
(* Catalog resolution followed by dispatch on a bot constructed with       *)
(* credentials for both services.  Every catalog declares the action       *)
(* getBalance and header authentication with the header x-api-key.         *)
(***************************************************************************)
\* options.serviceCredentials of this bot
BothCredentials ==
    [s \in {"acme", "stripe.com"} |->
        [h \in {"x-api-key"} |-> IF s = "acme" THEN "key-acme" ELSE "key-stripe"]]

HeaderAuthentication ==
    [type |-> "header", options |-> <<[headers |-> {"x-api-key"}]>>]

\* configs.set(website.url, await this.getAIWEConfig(website.serviceName)),
\* the catalog being supplied by tier with a body that declares the service
\* name declared
GatherAuthConfig(website, tier, declared) ==
    /\ pc = "dispatch"
    /\ tier \in TiersFor(website.serviceName)
    /\ configSources' = MapSet(configSources, website.serviceName, tier)
    /\ configs' = MapSet(configs, website.url,
                         [service |-> declared, actions |-> {S_getBalance},
                          authentication |-> HeaderAuthentication])
    /\ UNCHANGED <<dispatchFrame, dispResult>>

\* executePlan calls executeAction for an action of the plan on the website
DispatchAuth(website, resp) ==
    /\ pc = "dispatch"
    /\ website.url \in DOMAIN configs
    /\ dispResult' =
          [website |-> website,
           recorded |-> configSources[website.serviceName],
           declared |-> configs[website.url].service,
           result |-> executeAction(BothCredentials, S_getBalance, website.url,
                                    <<>>, configs[website.url], configSources, resp)]
    /\ UNCHANGED <<dispatchFrame, configs, configSources>>

NextCred ==
    \/ \E website \in Websites, tier \in Range(TierOrder),
             declared \in DeclaredServices :
          GatherAuthConfig(website, tier, declared)
    \/ \E website \in Websites, resp \in Responses(S_getBalance) :
          DispatchAuth(website, resp)

SpecCred == InitDispatch /\ [][NextCred]_vars

(***************************************************************************)
(* processInstruction step by step: the analysis, the website step, the    *)
(* config gathering (one getAIWEConfig call per website, which returns the *)
(* catalog or throws when no tier resolves the service), the planning step *)
(* and executePlan.  Every request to the oracle may fail (the call        *)
(* throws, or its content does not parse or lacks what the code reads),    *)
(* which throws inside the try of processInstruction.  The websites are    *)
(* "svc" and "sec" (url and service name alike); the candidate list is     *)
(* drawn one website at a time.                                            *)
(***************************************************************************)
CandidateServices == {"svc", "sec"}

\* the plans of the planner: those with defects and one with a dependency
\* cycle
InstrActions ==
    DefectActions
    \cup {Action(S_use, "svc", <<[key |-> S_v, value |-> Str(RefK1Total)]>>,
                 <<S_use>>, <<>>, FALSE)}

InstrPlanSet == UNION {[1..n -> InstrActions] : n \in 1..MaxPlanLen}

\* what a request to the oracle throws when it fails
OracleFailure(step) == [kind |-> "Oracle", step |-> step]

OracleOutcomes == {"fails", "answers", "declines"}

\* the state of the operations exercised alone, but for the getAIWEConfig
\* calls
instrFrame == <<linVars, resVars, concVars, sessVars, execVars, capTried>>

\* processInstruction is called: the conversation is pushed, the context is
\* created and the analysis is requested
StartInstruction ==
    /\ pc = "idle"
    /\ instructions < MaxInstructions
    /\ instructions' = instructions + 1
    /\ clock' = clock + 1
    /\ dataStore' = PushConversation(dataStore, clock', instructions')
    /\ completedActions' = EmptyMap
    /\ configs' = EmptyMap
    /\ capService' = ""
    /\ capResult' = NotResolved
    /\ capCalls' = 0
    /\ executed' = <<>>
    /\ attempts' = 0
    /\ delays' = <<>>
    /\ oracleCalls' = 0
    /\ resets' = 0
    /\ orderedPlan' = <<>>
    /\ idx' = 0
    /\ outputs' = EmptyMap
    /\ chatHistory' = <<>>
    /\ actionResults' = <<>>
    /\ actionResult' = NoActionResult
    /\ resolvedParams' = <<>>
    /\ thrown' = NoError
    /\ response' = NoResponse
    /\ pc' = "analyse"
    /\ UNCHANGED <<plan, decision, configSources, instrFrame>>

\* the analysis arrives: a conversational instruction is answered directly
Analysed(outcome) ==
    /\ pc = "analyse"
    /\ IF outcome = "fails" THEN Throw(OracleFailure("analysis"))
       ELSE IF outcome = "declines"
       THEN /\ response' = [response |-> [kind |-> "answer"]]
            /\ pc' = "idle"
            /\ UNCHANGED thrown
       ELSE /\ pc' = "websites"
            /\ UNCHANGED <<thrown, response>>
    /\ UNCHANGED <<instructions, plan, runVars, decision, dataStore, configSources,
                   configs, clock, logVars, capService, capResult, capCalls,
                   instrFrame>>

\* the website step answers: a question is returned, a list of websites
\* starts the config gathering
WebsitesDetermined(outcome) ==
    /\ pc = "websites"
    /\ IF outcome = "fails" THEN Throw(OracleFailure("websites"))
       ELSE IF outcome = "declines"
       THEN /\ response' = [response |-> [kind |-> "question"]]
            /\ pc' = "idle"
            /\ UNCHANGED thrown
       ELSE /\ pc' = "gather"
            /\ UNCHANGED <<thrown, response>>
    /\ UNCHANGED <<instructions, plan, runVars, decision, dataStore, configSources,
                   configs, clock, logVars, capService, capResult, capCalls,
                   instrFrame>>

\* getAIWEConfig returns the catalog of the next website: it is stored under
\* the website and its tier under the service name
ConfigGathered(website) ==
    /\ pc = "gather"
    /\ capCalls < MaxResolves
    /\ capCalls' = capCalls + 1
    /\ capService' = website
    /\ capResult' = [ok |-> TRUE, config |-> WorldConfigs[website]]
    /\ configs' = MapSet(configs, website, WorldConfigs[website])
    /\ configSources' = MapSet(configSources, website, WorldSources[website])
    /\ UNCHANGED <<pc, instructions, plan, runVars, decision, dataStore, clock,
                   logVars, thrown, response, instrFrame>>

\* a gathering loop that passes over a website no tier resolves
ConfigUnavailableSkipped(website) ==
    /\ pc = "gather"
    /\ capCalls < MaxResolves
    /\ capCalls' = capCalls + 1
    /\ capService' = website
    /\ capResult' = [ok |-> FALSE, error |-> NoIntegration(website)]
    /\ UNCHANGED <<pc, instructions, plan, runVars, decision, dataStore,
                   configSources, configs, clock, logVars, thrown, response,
                   instrFrame>>

\* getAIWEConfig throws for the next website: the catch of the gathering
\* loop asks the oracle to explain the error
ConfigUnavailable(website) ==
    /\ pc = "gather"
    /\ capCalls < MaxResolves
    /\ capCalls' = capCalls + 1
    /\ capService' = website
    /\ capResult' = [ok |-> FALSE, error |-> NoIntegration(website)]
    /\ pc' = "explain"
    /\ UNCHANGED <<instructions, plan, runVars, decision, dataStore, configSources,
                   configs, clock, logVars, thrown, response, instrFrame>>

\* the explanation arrives and is returned; an answer without a response
\* property is replaced by 'Failed to get configuration for ...'
Explained(outcome) ==
    /\ pc = "explain"
    /\ IF outcome = "fails" THEN Throw(OracleFailure("explanation"))
       ELSE /\ response' =
                  [response |->
                      [kind |-> IF outcome = "answers" THEN "explanation"
                                ELSE "FailedToGetConfiguration",
                       service |-> capService]]
            /\ pc' = "idle"
            /\ UNCHANGED thrown
    /\ UNCHANGED <<instructions, plan, runVars, decision, dataStore, configSources,
                   configs, clock, logVars, capService, capResult, capCalls,
                   instrFrame>>

\* every website has its catalog: the plan is requested
GatherDone ==
    /\ pc = "gather"
    /\ pc' = "plan"
    /\ UNCHANGED <<instructions, plan, runVars, decision, dataStore, configSources,
                   configs, clock, logVars, thrown, response, capService, capResult,
                   capCalls, instrFrame>>

\* the planner answers without a plan (more information is needed)
PlannerAsks(outcome) ==
    /\ pc = "plan"
    /\ outcome # "answers"
    /\ IF outcome = "fails" THEN Throw(OracleFailure("plan"))
       ELSE /\ response' = [response |-> [kind |-> "question"]]
            /\ pc' = "idle"
            /\ UNCHANGED thrown
    /\ UNCHANGED <<instructions, plan, runVars, decision, dataStore, configSources,
                   configs, clock, logVars, capService, capResult, capCalls,
                   instrFrame>>

\* the planner proposes p: executePlan linearizes it and enters its for loop
\* (the first instruction's plan is submitted again by the later ones)
Planned(p) ==
    /\ pc = "plan"
    /\ plan' = p
    /\ LET r == reorderActionPlan(p)
       IN IF r.ok
          THEN /\ orderedPlan' = r.plan
               /\ idx' = 1
               /\ pc' = "loop"
               /\ UNCHANGED <<thrown, response>>
          ELSE /\ Throw([kind |-> "CycleError", message |-> r.error])
               /\ UNCHANGED <<orderedPlan, idx>>
    /\ UNCHANGED <<instructions, outputs, completedActions, chatHistory,
                   actionResults, actionResult, resolvedParams, decision, dataStore,
                   configSources, configs, clock, logVars, capService, capResult,
                   capCalls, instrFrame>>

NextInstr ==
    \/ StartInstruction
    \/ \E outcome \in OracleOutcomes : Analysed(outcome)
    \/ \E outcome \in OracleOutcomes : WebsitesDetermined(outcome)
    \/ \E website \in CandidateServices : ConfigGathered(website)
    \/ \E website \in CandidateServices : ConfigUnavailable(website)
    \/ \E outcome \in OracleOutcomes : Explained(outcome)
    \/ GatherDone
    \/ \E outcome \in OracleOutcomes : PlannerAsks(outcome)
    \/ \E p \in (IF plan = <<>> THEN InstrPlanSet ELSE {plan}) : Planned(p)
    \/ SkipCompleted
    \/ AbortDefect
    \/ BeginAction
    \/ Attempt
    \/ DelayElapsed
    \/ \E d \in EscalationDecisions, r \in EscalationReasons : OracleAnswers(d, r)
    \/ Decide
    \/ EndOfPlan
    \/ Summarize

SpecInstr == Init /\ [][NextInstr]_vars

(***************************************************************************)
(* Claims about the output store, the abort paths and the retry cycle of   *)
(* executePlan.                                                            *)
(***************************************************************************)
\* the step of the for loop that writes outputs: the seeding of a skipped
\* action's recorded result or the write after a successful attempt
WritesOutput ==
    /\ idx \in 1..Len(orderedPlan)
    /\ orderedPlan[idx].outputKey # <<>>
    /\ idx' = idx + 1
    /\ \/ pc = "loop" /\ pc' = "loop"
       \/ pc = "attempt" /\ actionResult'.status = "success"

\* the action at idx is executed again: an earlier position of the plan holds
\* the same action, publishing under the same key
ReRun ==
    /\ pc = "attempt"
    /\ \E j \in 1..(idx - 1) :
          /\ orderedPlan[j].id = orderedPlan[idx].id
          /\ orderedPlan[j].outputKey = orderedPlan[idx].outputKey

(***************************************************************************)
(* C31.  Within one plan run a key of outputs is written at most once:     *)
(* a step that writes the output key of an action finds no entry under     *)
(* that key, unless it is the write of a repeated execution of the action  *)
(* that wrote it.                                                          *)
(***************************************************************************)
C31_WrittenOnce ==
    [][WritesOutput /\ orderedPlan[idx].outputKey \in DOMAIN outputs => ReRun]_vars

\* a getAIWEConfig call of the instruction threw
Unresolved == capResult # NotResolved /\ ~capResult.ok

(***************************************************************************)
(* C32.  Once getAIWEConfig has thrown for a website of the instruction,   *)
(* the oracle is asked to explain and processInstruction returns: the      *)
(* planner is not asked, executePlan is not entered and executeAction is   *)
(* not called.  What is returned is the oracle's explanation for the       *)
(* service (the fixed text naming the service when the answer has no       *)
(* response, the error of the request when the request itself failed).     *)
(***************************************************************************)
C32_UnresolvedExplained ==
    Unresolved
    => /\ pc \in {"explain", "idle"}
       /\ capResult.error = NoIntegration(capService)
       /\ orderedPlan = <<>> /\ idx = 0
       /\ executed = <<>> /\ attempts = 0 /\ actionResults = <<>>
       /\ pc = "idle"
          => \/ /\ thrown = NoError
                /\ response.response \in
                      {[kind |-> k, service |-> capService] :
                          k \in {"explanation", "FailedToGetConfiguration"}}
             \/ /\ thrown = OracleFailure("explanation")
                /\ response = ErrorResponse(thrown)

\* the second website of the instruction is not resolved, after the catalog
\* of the first was stored, and the explanation was returned
C32_Witness ==
    /\ Unresolved /\ pc = "idle"
    /\ capCalls = 2 /\ capService = "sec" /\ DOMAIN configs = {"svc"}
    /\ response.response = [kind |-> "explanation", service |-> "sec"]

\* processInstruction has returned the message of the error as its response,
\* without execution results
ReturnedAsResponse(error) ==
    /\ pc = "idle"
    /\ response = [response |-> [kind |-> "Error", message |-> error]]

(***************************************************************************)
(* C33 as stated.  processInstruction never rejects: whenever it is not in *)
(* progress it has returned a response, and every error raised during the  *)
(* instruction, the error of getAIWEConfig for an unresolved service       *)
(* included, was returned as the response carrying the error's message,    *)
(* without execution results.                                              *)
(***************************************************************************)
C33_ErrorsReturned ==
    /\ pc = "idle" /\ instructions > 0 => response # NoResponse
    /\ thrown # NoError => ReturnedAsResponse(thrown)
    /\ Unresolved /\ pc = "idle" => ReturnedAsResponse(capResult.error)

(***************************************************************************)
(* C33 amended.  processInstruction never rejects, and every error thrown  *)
(* inside its try other than getAIWEConfig's (a failing oracle request,    *)
(* the cycle error, a missing dependency, a missing catalog, an unresolved *)
(* reference, an escalated stop) was returned as the response carrying the *)
(* error's message, without execution results; the error of getAIWEConfig  *)
(* is answered by the explanation request instead.                         *)
(***************************************************************************)
C33_FatalErrorsReturned ==
    /\ pc = "idle" /\ instructions > 0 => response # NoResponse
    /\ thrown # NoError => ReturnedAsResponse(thrown)
    /\ Unresolved /\ pc = "idle" /\ thrown = NoError
       => response.response.kind \in {"explanation", "FailedToGetConfiguration"}

\* the second action of a plan was stopped by the oracle after the first
\* succeeded, and the fatal error is the response
C33_Witness ==
    /\ thrown.kind = "Fatal" /\ idx = 2 /\ Len(actionResults) = 1
    /\ ReturnedAsResponse(thrown)

\* the retry cycle of the action at idx is in progress
InRetryCycle == pc \in {"attempt", "delay", "escalate", "decide"}

(***************************************************************************)
(* C34.  While the retry cycle of an action is in progress its attempt     *)
(* counter is between 0 and 3 and counts the consecutive failures since    *)
(* the start or the last reset; executeAction is about to be called (the   *)
(* retry loop is at its head) only with a counter below 3; the oracle is   *)
(* being consulted, or its answer acted on, only with the counter at 3;    *)
(* and the consultations number one per three consecutive failures: as     *)
(* many as resets before the third failure, one more after it.             *)
(***************************************************************************)
C34_RetryStateMachine ==
    InRetryCycle
    => /\ actionResult.retryCount \in 0..3
       /\ attempts = 3 * resets + actionResult.retryCount
       /\ pc = "attempt" => actionResult.retryCount < 3
       /\ pc = "delay" => actionResult.retryCount \in 1..2
       /\ pc \in {"escalate", "decide"} => actionResult.retryCount = 3
       /\ pc \in {"attempt", "delay", "escalate"} => oracleCalls = resets
       /\ pc = "decide" => oracleCalls = resets + 1

\* the oracle is consulted for the second time, after three failures, a
\* retry answer and three more failures
C34_Witness ==
    /\ pc = "decide" /\ oracleCalls = 2 /\ resets = 1 /\ attempts = 6
    /\ actionResult.retryCount = 3

(***************************************************************************)
(* C35.  When every executeAction call and every oracle request returns    *)
(* and the oracle answers `retry` finitely often per action, a plan run    *)
(* that has started ends: executePlan returns its summary or throws, and   *)
(* processInstruction has returned.                                        *)
(***************************************************************************)
C35_Terminates == (pc # "idle") ~> RunEnded

\* a run has ended with its summary after the oracle had answered `retry`
\* as often as the model allows for its last action
C35_Witness ==
    /\ RunEnded /\ response.response.kind = "summary"
    /\ resets = MaxResets /\ attempts > maxRetries

\* the action at position j of orderedPlan was abandoned: a failure is
\* recorded for it
Abandoned(j) ==
    \E r \in 1..Len(actionResults) :
        /\ actionResults[r].status = "failure"
        /\ actionResults[r].id = orderedPlan[j].id

\* the action at position i declares a dependency on the output key of an
\* action abandoned before it
DependsOnAbandoned(i) ==
    \E j \in 1..(i - 1) :
        /\ Abandoned(j)
        /\ orderedPlan[j].outputKey # <<>>
        /\ orderedPlan[j].outputKey \in Range(orderedPlan[i].dependsOn)

(***************************************************************************)
(* C36.  When the for loop reaches an action that declares a dependency    *)
(* on the output key of an action abandoned earlier in the run, the run    *)
(* aborts there with the missing-dependency error naming the action: it is *)
(* neither executed nor skipped, nothing is recorded, and the loop does    *)
(* not move on to the actions after it.                                    *)
(***************************************************************************)
C36_DependentAborts ==
    [][pc = "loop" /\ idx <= Len(orderedPlan) /\ DependsOnAbandoned(idx)
       => /\ pc' = "idle"
          /\ thrown'.kind = "MissingDependency"
          /\ thrown'.action = orderedPlan[idx].id
          /\ UNCHANGED <<idx, executed, attempts, actionResults, chatHistory,
                         outputs>>]_vars

\* C36 for the plans in which no id occurs twice and no two actions publish
\* under one key
DistinctKeys(p) ==
    \A i, j \in 1..Len(p) : i # j /\ p[i].outputKey # <<>>
                            => p[i].outputKey # p[j].outputKey

C36_WellFormedPlans ==
    [][/\ UniqueIds(plan) /\ DistinctKeys(plan)
       /\ pc = "loop" /\ idx <= Len(orderedPlan) /\ DependsOnAbandoned(idx)
       => /\ pc' = "idle"
          /\ thrown'.kind = "MissingDependency"
          /\ thrown'.action = orderedPlan[idx].id
          /\ UNCHANGED <<idx, executed, attempts, actionResults, chatHistory,
                         outputs>>]_vars

\* a remote call was made for the website of dispResult
RemoteCall ==
    /\ dispResult # NotRun
    /\ dispResult.result.called
    /\ dispResult.result.backend \in {"official", "aiwe.cloud"}

(***************************************************************************)
(* C37.  The headers of a remote call made for an action on a website hold *)
(* values configured under the service name the website's catalog was      *)
(* requested under, and no value configured under another name, whatever   *)
(* service name the body of the catalog declares.                          *)
(***************************************************************************)
C37_CredentialsStayWithService ==
    RemoteCall
    => \A h \in DOMAIN dispResult.result.headers :
          dispResult.result.headers[h] =
             PropertyOf(SavedCredentials(BothCredentials,
                                         dispResult.website.serviceName), h)

\* C37 for the catalogs that declare the service name they were requested
\* under
C37_SameName ==
    RemoteCall /\ dispResult.declared = dispResult.website.serviceName
    => \A h \in DOMAIN dispResult.result.headers :
          dispResult.result.headers[h] =
             PropertyOf(SavedCredentials(BothCredentials,
                                         dispResult.website.serviceName), h)

\* the run of the last instruction was aborted by executePlan's for loop
Aborted == pc = "idle" /\ thrown.kind \in DefectKinds \cup {"Fatal"}

\* the ids of the actions that succeeded in the run, and the result of the
\* last success of an id
SuccessIds ==
    {actionResults[i].id :
        i \in {j \in 1..Len(actionResults) : actionResults[j].status = "success"}}

LastSuccess(id) ==
    LET at == {i \in 1..Len(actionResults) :
                  actionResults[i].id = id /\ actionResults[i].status = "success"}
    IN actionResults[CHOOSE i \in at : \A j \in at : j <= i].result

(***************************************************************************)
(* C38.  After a run was aborted by an escalated stop or a plan defect,    *)
(* completedActions and dataStore.actions hold, for every action that      *)
(* succeeded before the abort, the record of its success (result, and the  *)
(* time of the run), and they hold no record written in this run for any   *)
(* other action: the only records are those of the positions before the    *)
(* aborting one.                                                           *)
(***************************************************************************)
C38_NoRollback ==
    Aborted
    => /\ idx \in 1..Len(orderedPlan)
       /\ Len(actionResults) + Skipped = idx - 1
       /\ DOMAIN completedActions = SuccessIds
       /\ \A id \in SuccessIds :
             /\ completedActions[id].result = LastSuccess(id)
             /\ id \in DOMAIN dataStore.actions
             /\ dataStore.actions[id].result = LastSuccess(id)
             /\ dataStore.actions[id].timestamp = clock
       /\ \A id \in DOMAIN dataStore.actions :
             dataStore.actions[id].timestamp = clock => id \in SuccessIds

\* the oracle stopped the run at its second action: the record of the first,
\* which succeeded, is in the ledger and in the data store, and there is
\* none for the second
C38_Witness ==
    /\ Aborted /\ thrown.kind = "Fatal" /\ idx = 2
    /\ orderedPlan[1].id = S_fetch /\ orderedPlan[2].id = S_use
    /\ DOMAIN completedActions = {S_fetch}
    /\ DOMAIN dataStore.actions = {S_fetch}

(***************************************************************************)
(* C39.  A reference whose first segment is a key of the output store is   *)
(* never reported as a missing output, whatever the store holds under the  *)
(* key (0, false, the empty string and null included): when every          *)
(* reference of the parameter object is such a key alone, resolveParameters *)
(* returns an object, and the error 'missing required output' names only   *)
(* keys that the store lacks.                                              *)
(***************************************************************************)
\* the reference is an output key with no further segment, and the store has it
PresentKey(value, outs) ==
    /\ Len(RefPath(value)) = 1
    /\ RefPath(value)[1] \in DOMAIN outs

C39_PresentKeyResolves ==
    pc = "res-done"
    => /\ (\A i \in 1..Len(resParams) :
              IsReference(resParams[i].value)
              => PresentKey(resParams[i].value, resOutputs))
          => resResult.ok
       /\ ~resResult.ok /\ resResult.error.kind = "MissingOutput"
          => resResult.error.output \notin DOMAIN resOutputs

\* the other half of C39: a first reference whose key the store lacks is
\* reported as a missing output
C39_AbsentKeyReported ==
    /\ pc = "res-done"
    /\ IsReference(resParams[1].value)
    /\ RefPath(resParams[1].value) # <<>>
    /\ RefPath(resParams[1].value)[1] \notin DOMAIN resOutputs
    => /\ ~resResult.ok
       /\ resResult.error.kind = "MissingOutput"
       /\ resResult.error.output = RefPath(resParams[1].value)[1]

(***************************************************************************)
(* C40.  The oracle is asked only after the third consecutive failure, and *)
(* of its answers only `stop` aborts the run and only `retry` has the      *)
(* action attempted again: on every other answer (`continue`, `skip`, a    *)
(* value the prompt does not name, a missing decision field) the action is *)
(* recorded as a failure with its last error, nothing is thrown or written *)
(* to the outputs, the completed actions or the data store, and the loop   *)
(* moves on to the next action.                                            *)
(***************************************************************************)
C40_OnlyStopAndRetry ==
    [][pc = "decide"
       => /\ actionResult.retryCount = 3
          /\ decision.decision \notin {"stop", "retry"}
             => /\ actionResults' = Append(actionResults,
                                           [id |-> orderedPlan[idx].id,
                                            status |-> "failure",
                                            error |-> actionResult.error])
                /\ idx' = idx + 1
                /\ pc' = "loop"
                /\ UNCHANGED <<outputs, completedActions, dataStore, thrown,
                               response, attempts>>
          /\ (pc' = "idle" \/ thrown' # thrown) => decision.decision = "stop"
          /\ (pc' = "attempt" \/ actionResult'.retryCount # actionResult.retryCount)
             => decision.decision = "retry"]_vars

\* the first action was abandoned, the second failed three times as well, and
\* the answer to the second escalation has no decision field
C40_Witness ==
    /\ pc = "decide" /\ decision.decision = "undefined"
    /\ idx = 2 /\ attempts = 3 /\ resets = 0
    /\ Len(actionResults) = 1 /\ actionResults[1].status = "failure"
    /\ thrown = NoError

=============================================================================
